---- MODULE Spec2Model ----
(***************************************************************************)
(* ts-souko: a typed key-value facade (TypedStorage) over a string-keyed,  *)
(* string-valued BaseStorage, with Codecs converting typed values to and   *)
(* from strings.                                                           *)
(*                                                                         *)
(* JavaScript strings are modelled as sequences of one-character strings,  *)
(* so that concatenation (template literals), equality and substring tests *)
(* are computed character by character.                                    *)
(***************************************************************************)
EXTENDS Integers, Sequences, FiniteSets, TLC

(***************************************************************************)
(* Bounds of the model.                                                    *)
(***************************************************************************)
\* numbers passed to set() are 1..MaxNum and the test value 100
MaxNum == 1
\* arrays passed to the codecs of arrayOf have at most MaxLen elements
MaxLen == 2
\* at most MaxPending calls of an asynchronous typed storage are in flight
MaxPending == 2

(***************************************************************************)
(* State.                                                                  *)
(*   m      : content of the base storage (physical key -> raw string)     *)
(*   cfg    : which base storage the typed storages were constructed over, *)
(*            and who holds a reference to it                              *)
(*   last   : the operation performed by the last step and its outcome     *)
(*   shadow : for a scoped base storage, the value most recently set and   *)
(*            not removed for each key of the owning typed storage         *)
(*   probe  : the last call of a codec function on its own: the codec, the *)
(*            function, its argument and its completion                    *)
(*   am     : content of the asynchronous base storage                     *)
(*   pending: the calls of the asynchronous typed storage suspended at     *)
(*            their `await`, oldest first                                  *)
(*   alast  : the asynchronous call invoked or resumed by the last step    *)
(*   lockstep : every asynchronous call so far was awaited before the next *)
(*            one was issued (m and last then hold the synchronous run of  *)
(*            the same calls)                                              *)
(*   stores : the Map objects allocated by createInMemoryStorage, in the   *)
(*            order of their allocation                                    *)
(*   handles: the in-memory base storages the caller holds (each refers to *)
(*            a Map of stores): the baseStorages.inMemory singleton first, *)
(*            then the results of inMemoryScoped / inMemoryScopedAsync     *)
(*   latest : for each handle and key, the value most recently set and not *)
(*            removed or cleared since                                     *)
(*   blast  : the call of a base storage made by the last step             *)
(*   objects: the spec objects (key -> Codec) the caller has created       *)
(*   typed  : the typed storage created from the caller's spec object: the *)
(*            object its keyToCodec refers to, and the object's content    *)
(*            when createTypedStorage was called                           *)
(***************************************************************************)
VARIABLES m, cfg, last, shadow, probe, am, pending, alast, lockstep,
          stores, handles, latest, blast, objects, typed

vars == <<m, cfg, last, shadow, probe, am, pending, alast, lockstep,
          stores, handles, latest, blast, objects, typed>>
\* state of the codec calls and of the asynchronous typed storage
codecVars == <<probe>>
asyncVars == <<am, pending, alast, lockstep>>
\* state of the base storages called directly, and of the typed storage
\* created from a spec object the caller keeps
baseVars == <<stores, handles, latest, blast>>
buildVars == <<objects, typed>>

(***************************************************************************)
(* String literals of the source.                                          *)
(***************************************************************************)
K_key == <<"k", "e", "y">>
K_nothing == <<"n", "o", "t", "h", "i", "n", "g">>
K_boom == <<"b", "o", "o", "m">>
K_b_c == <<"b", "_", "c">>
K_c == <<"c">>
P_pre == <<"p", "r", "e", "_">>
P_a == <<"a">>
P_a_b == <<"a", "_", "b">>
P_empty == <<>>
S_bad_data == <<"b", "a", "d", "_", "d", "a", "t", "a">>
S_hi == <<"h", "i">>
S_pre_key == <<"p", "r", "e", "_", "k", "e", "y">>
S_NaN == <<"N", "a", "N">>
S_Infinity == <<"I", "n", "f", "i", "n", "i", "t", "y">>
S_quota == <<"q", "u", "o", "t", "a", " ", "e", "x", "c", "e", "e", "d", "e", "d">>
S_boom == <<"c", "a", "n", "n", "o", "t", " ", "c", "o", "n", "v", "e", "r", "t">>
S_null == <<"n", "u", "l", "l">>
S_true == <<"t", "r", "u", "e">>
S_false == <<"f", "a", "l", "s", "e">>
S_maxsafe == <<"9", "0", "0", "7", "1", "9", "9", "2", "5", "4", "7", "4", "0",
               "9", "9", "1">>
S_syntax == <<"U", "n", "e", "x", "p", "e", "c", "t", "e", "d", " ", "t", "o",
              "k", "e", "n">>
S_cyclic == <<"c", "y", "c", "l", "i", "c", " ", "o", "b", "j", "e", "c", "t",
              " ", "v", "a", "l", "u", "e">>
K_data == <<"d", "a", "t", "a">>
TN_number == <<"n", "u", "m", "b", "e", "r">>
TN_bigint == <<"b", "i", "g", "i", "n", "t">>
TN_boolean == <<"b", "o", "o", "l", "e", "a", "n">>
TN_array == <<"a", "r", "r", "a", "y">>
TN_array_of == <<"a", "r", "r", "a", "y", " ", "o", "f", " ", "s", "p", "e", "c",
                 "i", "f", "i", "e", "d", " ", "t", "y", "p", "e">>
TN_tuple == <<"t", "u", "p", "l", "e">>
TN_tuple_of == <<"t", "u", "p", "l", "e", " ", "o", "f", " ", "s", "p", "e", "c",
                 "i", "f", "i", "e", "d", " ", "t", "y", "p", "e">>
S_undefined_codec == <<"c", "o", "d", "e", "c", " ", "i", "s", " ", "u", "n", "d",
                       "e", "f", "i", "n", "e", "d">>
S_undefined == <<"u", "n", "d", "e", "f", "i", "n", "e", "d">>
S_not_boolean == <<"n", "o", "t", " ", "a", " ", "b", "o", "o", "l", "e", "a",
                   "n">>
S_validation_error == <<"v", "a", "l", "i", "d", "a", "t", "i", "o", "n", " ",
                        "e", "r", "r", "o", "r", ":", " ">>
S_zod == <<"z", "o", "d">>
W_get == <<"g", "e", "t">>
W_set == <<"s", "e", "t">>
W_remove == <<"r", "e", "m", "o", "v", "e">>

\* s contains sub as a contiguous substring (String.prototype.includes)
Contains(s, sub) ==
  \E i \in 1..(Len(s) - Len(sub) + 1) : SubSeq(s, i, i + Len(sub) - 1) = sub

(***************************************************************************)
(* JavaScript values and completions.                                      *)
(***************************************************************************)
NullV == [t |-> "null"]
Str(s) == [t |-> "string", s |-> s]
\* a number: k is "int" (n its value), "negzero", "NaN", "inf" or "ninf"
Num(k, n) == [t |-> "number", k |-> k, n |-> n]
IntV(n) == Num("int", n)
NaNV == Num("NaN", 0)

BoolV(b) == [t |-> "boolean", b |-> b]
\* a bigint: sign and decimal digits of the magnitude without leading zeros
BigIntV(neg, ds) == [t |-> "bigint", neg |-> neg, ds |-> ds]
\* an array and its elements
ArrV(items) == [t |-> "array", items |-> items]
\* the object literal {}
ObjV == [t |-> "object"]
\* an object that refers to itself: const o = {}; o.self = o
Circular == [t |-> "circular"]
\* Number.MAX_SAFE_INTEGER (2^53 - 1) and Number.MIN_SAFE_INTEGER, kept as
\* kinds of their own because they exceed the range of the model's integers
MAX_SAFE_INTEGER == Num("maxsafe", 0)
MIN_SAFE_INTEGER == Num("minsafe", 0)
\* a finite number of more than nine digits other than the two above
OtherFinite == Num("finite", 0)

\* `new Error(message)`: the message is an own property of the object that is
\* not enumerable, so Object.keys(e) does not list it
NewError(message) == [t |-> "Error", message |-> message, enumerable |-> FALSE]

\* normal completion of a call with value v / abrupt completion throwing e
Return(v) == [kind |-> "return", val |-> v]
Throw(e) == [kind |-> "throw", err |-> e]
\* the call has not completed yet / the promise has not settled yet
Pending == [kind |-> "pending"]
\* a promise object returned to the caller
PromiseV == [t |-> "promise"]

(***************************************************************************)
(* Codec.ts                                                                *)
(***************************************************************************)
decodeError(input, typeName) ==
  NewError(<<"i", "n", "p", "u", "t", " ", "'">> \o input
           \o <<"'", " ", "i", "s", " ", "n", "o", "t", " ", "d", "e", "c", "o",
                "d", "a", "b", "l", "e", " ", "a", "s", " ">> \o typeName)

Digits == <<"0", "1", "2", "3", "4", "5", "6", "7", "8", "9">>
IsDigit(c) == \E d \in 1..10 : Digits[d] = c
DigitVal(c) == (CHOOSE d \in 1..10 : Digits[d] = c) - 1

\* Number.prototype.toString for a non-negative integer
RECURSIVE NatToString(_)
NatToString(n) ==
  IF n < 10 THEN <<Digits[n + 1]>>
  ELSE NatToString(n \div 10) \o <<Digits[(n % 10) + 1]>>

\* Number.prototype.toString (radix 10); (-0).toString() is "0"
NumberToString(x) ==
  CASE x.k = "NaN" -> S_NaN
    [] x.k = "inf" -> S_Infinity
    [] x.k = "ninf" -> <<"-">> \o S_Infinity
    [] x.k = "negzero" -> <<"0">>
    [] x.k = "maxsafe" -> S_maxsafe
    [] x.k = "minsafe" -> <<"-">> \o S_maxsafe
    [] x.k = "int" -> IF x.n < 0 THEN <<"-">> \o NatToString(0 - x.n)
                      ELSE NatToString(x.n)

\* value of a non-empty sequence of decimal digits
RECURSIVE DigitsToNat(_)
DigitsToNat(s) ==
  IF Len(s) = 0 THEN 0
  ELSE 10 * DigitsToNat(SubSeq(s, 1, Len(s) - 1)) + DigitVal(s[Len(s)])

AllDigits(s) == Len(s) > 0 /\ \A i \in 1..Len(s) : IsDigit(s[i])

\* the digits of s without leading zeros ("0" for zero)
RECURSIVE StripZeros(_)
StripZeros(s) ==
  IF Len(s) > 1 /\ s[1] = "0" THEN StripZeros(Tail(s)) ELSE s

\* String.prototype.trim restricted to the space character
RECURSIVE Trim(_)
Trim(s) ==
  IF Len(s) > 0 /\ s[1] = " " THEN Trim(Tail(s))
  ELSE IF Len(s) > 0 /\ s[Len(s)] = " " THEN Trim(SubSeq(s, 1, Len(s) - 1))
  ELSE s

\* Number(s) (StringToNumber) on the decimal-integer fragment of the numeric
\* grammar: optional white space, the empty string (+0), an optional sign
\* followed by decimal digits or by Infinity.  Strings with a fraction, an
\* exponent or a radix prefix are outside the model's alphabet.
ToNumber(s) ==
  LET t == Trim(s)
      signed == Len(t) > 0 /\ t[1] \in {"+", "-"}
      neg == Len(t) > 0 /\ t[1] = "-"
      body == IF signed THEN Tail(t) ELSE t
  IN  IF Len(t) = 0 THEN IntV(0)
      ELSE IF body = S_Infinity THEN (IF neg THEN Num("ninf", 0) ELSE Num("inf", 0))
      ELSE IF AllDigits(body) /\ Len(StripZeros(body)) > 9
           THEN (IF StripZeros(body) # S_maxsafe THEN OtherFinite
                 ELSE IF neg THEN MIN_SAFE_INTEGER ELSE MAX_SAFE_INTEGER)
      ELSE IF AllDigits(body)
           THEN (IF neg
                 THEN (IF DigitsToNat(body) = 0 THEN Num("negzero", 0)
                       ELSE IntV(0 - DigitsToNat(body)))
                 ELSE IntV(DigitsToNat(body)))
      ELSE NaNV

\* encode without the Object.is(n, -0) case
numberEncode_plain(x) == Return(Str(NumberToString(x)))

\* codecs.number.encode
numberEncode(x) ==
  Return(Str(IF x.k = "negzero" THEN <<"-", "0">> ELSE NumberToString(x)))

\* decode without the isNaN(n) check
numberDecode_noNaNCheck(s) ==
  IF s = S_NaN THEN Return(NaNV) ELSE Return(ToNumber(s))

\* codecs.number.decode
numberDecode(s) ==
  IF s = S_NaN THEN Return(NaNV)
  ELSE LET n == ToNumber(s)
       IN  IF n.k = "NaN" THEN Throw(decodeError(s, TN_number))
           ELSE Return(n)

\* codecs.string: encode and decode both return their argument
stringEncode(x) == Return(x)
stringDecode(s) == Return(Str(s))

(***************************************************************************)
(* JSON.parse and JSON.stringify on the fragment of JSON the model uses:   *)
(* null, true, false, decimal integers, strings with the escapes \" and   *)
(* \\, arrays, and the empty object; white space is the space character.  *)
(* Fractions, exponents, other escapes and object members are outside the  *)
(* model's alphabet.                                                       *)
(***************************************************************************)
RECURSIVE SkipWs(_, _)
\* index of the first character at or after i that is not white space
SkipWs(s, i) == IF i <= Len(s) /\ s[i] = " " THEN SkipWs(s, i + 1) ELSE i

\* the characters of lit occur in s from index i on
StartsWithAt(s, i, lit) ==
  i + Len(lit) - 1 <= Len(s) /\ SubSeq(s, i, i + Len(lit) - 1) = lit

\* outcome of parsing one JSON value: next is the index after the value
ParseFail == [ok |-> FALSE, val |-> NullV, next |-> 0]
ParseOk(v, n) == [ok |-> TRUE, val |-> v, next |-> n]

RECURSIVE ScanDigits(_, _)
\* index after the run of digits that starts at i
ScanDigits(s, i) ==
  IF i <= Len(s) /\ IsDigit(s[i]) THEN ScanDigits(s, i + 1) ELSE i

\* JSON number: -? (0 | [1-9][0-9]*)
ParseJSONNumber(s, i) ==
  LET j == IF s[i] = "-" THEN i + 1 ELSE i
      e == IF j <= Len(s) /\ s[j] = "0" THEN j + 1 ELSE ScanDigits(s, j)
  IN  IF e = j THEN ParseFail
      ELSE ParseOk(ToNumber(SubSeq(s, i, e - 1)), e)

RECURSIVE ParseJSONString(_, _, _)
\* JSON string, i being the index after the opening quote
ParseJSONString(s, i, acc) ==
  IF i > Len(s) THEN ParseFail
  ELSE IF s[i] = "\"" THEN ParseOk(Str(acc), i + 1)
  ELSE IF s[i] = "\\"
       THEN (IF i + 1 <= Len(s) /\ s[i + 1] \in {"\"", "\\"}
             THEN ParseJSONString(s, i + 2, Append(acc, s[i + 1]))
             ELSE ParseFail)
  ELSE ParseJSONString(s, i + 1, Append(acc, s[i]))

RECURSIVE ParseJSONValue(_, _)
RECURSIVE ParseJSONElements(_, _, _)
\* JSON value starting at index i (white space already skipped)
ParseJSONValue(s, i) ==
  IF i > Len(s) THEN ParseFail
  ELSE CASE s[i] = "n" ->
              IF StartsWithAt(s, i, S_null) THEN ParseOk(NullV, i + 4)
              ELSE ParseFail
         [] s[i] = "t" ->
              IF StartsWithAt(s, i, S_true) THEN ParseOk(BoolV(TRUE), i + 4)
              ELSE ParseFail
         [] s[i] = "f" ->
              IF StartsWithAt(s, i, S_false) THEN ParseOk(BoolV(FALSE), i + 5)
              ELSE ParseFail
         [] s[i] = "\"" -> ParseJSONString(s, i + 1, <<>>)
         [] s[i] = "[" ->
              LET j == SkipWs(s, i + 1)
              IN  IF j <= Len(s) /\ s[j] = "]" THEN ParseOk(ArrV(<<>>), j + 1)
                  ELSE ParseJSONElements(s, j, <<>>)
         [] s[i] = "{" ->
              LET j == SkipWs(s, i + 1)
              IN  IF j <= Len(s) /\ s[j] = "}" THEN ParseOk(ObjV, j + 1)
                  ELSE ParseFail
         [] s[i] = "-" \/ IsDigit(s[i]) -> ParseJSONNumber(s, i)
         [] OTHER -> ParseFail

\* elements of an array, i being the index of the next element
ParseJSONElements(s, i, acc) ==
  LET v == ParseJSONValue(s, i)
      j == SkipWs(s, v.next)
  IN  IF ~v.ok \/ j > Len(s) THEN ParseFail
      ELSE IF s[j] = "]" THEN ParseOk(ArrV(Append(acc, v.val)), j + 1)
      ELSE IF s[j] = ","
           THEN ParseJSONElements(s, SkipWs(s, j + 1), Append(acc, v.val))
      ELSE ParseFail

\* JSON.parse(s): throws a SyntaxError unless s is one JSON value with
\* optional white space around it
jsonParse(s) ==
  LET v == ParseJSONValue(s, SkipWs(s, 1))
  IN  IF v.ok /\ SkipWs(s, v.next) > Len(s) THEN Return(v.val)
      ELSE Throw(NewError(S_syntax))

\* string characters copied into the literal without escaping
QuoteChars_raw(s) == s

RECURSIVE QuoteChars(_)
\* the characters of a string inside a JSON string literal
QuoteChars(s) ==
  IF Len(s) = 0 THEN <<>>
  ELSE (IF s[1] \in {"\"", "\\"} THEN <<"\\", s[1]>> ELSE <<s[1]>>)
       \o QuoteChars(Tail(s))

RECURSIVE Serializable(_)
\* JSON.stringify throws a TypeError on a bigint and on a cyclic object
Serializable(v) ==
  CASE v.t \in {"circular", "bigint"} -> FALSE
    [] v.t = "array" -> \A n \in 1..Len(v.items) : Serializable(v.items[n])
    [] OTHER -> TRUE

RECURSIVE jsonText(_)
RECURSIVE JoinElements(_)
jsonText(v) ==
  CASE v.t = "null" -> S_null
    [] v.t = "boolean" -> (IF v.b THEN S_true ELSE S_false)
    [] v.t = "number" ->
         (IF v.k \in {"NaN", "inf", "ninf"} THEN S_null ELSE NumberToString(v))
    [] v.t = "string" -> <<"\"">> \o QuoteChars(v.s) \o <<"\"">>
    [] v.t = "array" -> <<"[">> \o JoinElements(v.items) \o <<"]">>
    [] v.t = "object" -> <<"{", "}">>
\* the texts of the elements separated by commas
JoinElements(items) ==
  IF Len(items) = 0 THEN <<>>
  ELSE IF Len(items) = 1 THEN jsonText(items[1])
  ELSE jsonText(items[1]) \o <<",">> \o JoinElements(Tail(items))

\* JSON.stringify(v)
jsonStringify(v) ==
  IF Serializable(v) THEN Return(Str(jsonText(v)))
  ELSE Throw(NewError(S_cyclic))

\* BigInt(s) (StringToBigInt) on decimal input: optional white space, the
\* empty string (0n), an optional sign followed by decimal digits; throws a
\* SyntaxError otherwise.  Radix prefixes are outside the model's alphabet.
toBigInt(s) ==
  LET t == Trim(s)
      signed == Len(t) > 0 /\ t[1] \in {"+", "-"}
      body == IF signed THEN Tail(t) ELSE t
  IN  IF Len(t) = 0 THEN Return(BigIntV(FALSE, <<"0">>))
      ELSE IF AllDigits(body)
           THEN Return(BigIntV(t[1] = "-" /\ StripZeros(body) # <<"0">>,
                               StripZeros(body)))
      ELSE Throw(NewError(S_syntax))

\* BigInt.prototype.toString
BigIntToString(x) == IF x.neg THEN <<"-">> \o x.ds ELSE x.ds

\* codecs.bigint.encode
bigintEncode(x) == Return(Str(BigIntToString(x)))

\* codecs.bigint.decode
bigintDecode(s) ==
  IF toBigInt(s).kind = "throw" THEN Throw(decodeError(s, TN_bigint))
  ELSE toBigInt(s)

\* codecs.boolean.encode
booleanEncode(x) == jsonStringify(x)

\* decode without the typeof parsed !== 'boolean' check
booleanDecode_noTypeCheck(s) ==
  IF jsonParse(s).kind = "throw" THEN Throw(decodeError(s, TN_boolean))
  ELSE jsonParse(s)

\* codecs.boolean.decode
booleanDecode(s) ==
  LET parsed == jsonParse(s)
  IN  IF parsed.kind = "throw" THEN Throw(decodeError(s, TN_boolean))
      ELSE IF parsed.val.t # "boolean" THEN Throw(decodeError(s, TN_boolean))
      ELSE parsed

\* validateParsedJSON with a validate function that accepts every parsed
\* value and returns it: (p) => p as T
validateParsedJSON(parsed) == Return(parsed)

\* codecs.jsonWithValidation(validate).encode
jsonEncode(x) == jsonStringify(x)

\* codecs.jsonWithValidation(validate).decode: a SyntaxError of JSON.parse
\* propagates as it is
jsonDecode(s) ==
  LET parsed == jsonParse(s)
  IN  IF parsed.kind = "throw" THEN parsed
      ELSE validateParsedJSON(parsed.val)

\* a caller-supplied validate function: it returns a parsed boolean and
\* throws new Error('not a boolean') for every other parsed value
validate(parsed) ==
  IF parsed.t = "boolean" THEN Return(parsed)
  ELSE Throw(NewError(S_not_boolean))

\* the validatorName argument: omitted (undefined), '' or a name
NoName == [defined |-> FALSE, s |-> <<>>]
Name(s) == [defined |-> TRUE, s |-> s]

\* `${e}` for a thrown Error: Error.prototype.toString
errorToString(e) ==
  IF e.message = <<>> THEN <<"E", "r", "r", "o", "r">>
  ELSE <<"E", "r", "r", "o", "r", ":", " ">> \o e.message

\* `${validatorName}` of a template literal: undefined prints as 'undefined'
nameToString(validatorName) ==
  IF validatorName.defined THEN validatorName.s ELSE S_undefined

\* validateParsedJSON(validate, parsed, validatorName) of the variant of
\* jsonWithValidation that takes a validator name: the error of validate is
\* wrapped, and the name is prepended unless validatorName is ''
validateParsedJSONNamed(parsed, validatorName) ==
  LET r == validate(parsed)
  IN  IF r.kind = "return" THEN r
      ELSE LET errMsg == S_validation_error \o errorToString(r.err)
           IN  IF validatorName # Name(<<>>)
               THEN Throw(NewError(nameToString(validatorName) \o <<" ">>
                                   \o errMsg))
               ELSE Throw(NewError(errMsg))

\* codecs.jsonWithValidation(validate, validatorName).decode: JSON.parse is
\* outside the try block, its SyntaxError propagates as it is
jsonWithValidationDecode(validatorName, s) ==
  LET parsed == jsonParse(s)
  IN  IF parsed.kind = "throw" THEN parsed
      ELSE validateParsedJSONNamed(parsed.val, validatorName)

\* a caller-supplied Codec whose encode and decode raise on every input
failingEncode(x) == Throw(NewError(S_boom))
failingDecode(s) == Throw(NewError(S_boom))

\* codec.encode(value) / codec.decode(rawVal) for the codec named c; encode
\* completes with a string value, decode takes the characters of rawVal
encode(c, x) ==
  CASE c = "number" -> numberEncode(x)
    [] c = "string" -> stringEncode(x)
    [] c = "failing" -> failingEncode(x)
    [] c = "bigint" -> bigintEncode(x)
    [] c = "boolean" -> booleanEncode(x)
    [] c = "json" -> jsonEncode(x)

decode(c, s) ==
  CASE c = "number" -> numberDecode(s)
    [] c = "string" -> stringDecode(s)
    [] c = "failing" -> failingDecode(s)
    [] c = "bigint" -> bigintDecode(s)
    [] c = "boolean" -> booleanDecode(s)
    [] c = "json" -> jsonDecode(s)

\* codec descriptors: a codec of the catalog by name, arrayOf(elemCodec),
\* tupleOf(elemCodecs)
Cd(name) == [c |-> name]
ArrayOf(elem) == [c |-> "arrayOf", elem |-> elem]
TupleOf(elems) == [c |-> "tupleOf", elems |-> elems]
\* codecs.jsonWithValidation(validate, validatorName)
JsonWithValidation(validatorName) ==
  [c |-> "jsonWithValidation", validatorName |-> validatorName]

\* index of the first abrupt completion in a sequence of completions, 0 if
\* there is none (Array.prototype.map stops at the first exception)
FirstThrow(cs) ==
  IF \E n \in 1..Len(cs) : cs[n].kind = "throw"
  THEN CHOOSE n \in 1..Len(cs) :
         /\ cs[n].kind = "throw"
         /\ \A k \in 1..(n - 1) : cs[k].kind = "return"
  ELSE 0

RECURSIVE codecEncode(_, _)
RECURSIVE codecDecode(_, _)

\* codecs.arrayOf(elemCodec).encode
arrayOfEncode(elem, x) ==
  LET encs == [n \in 1..Len(x.items) |-> codecEncode(elem, x.items[n])]
  IN  IF FirstThrow(encs) # 0 THEN encs[FirstThrow(encs)]
      ELSE jsonStringify(ArrV([n \in 1..Len(encs) |-> encs[n].val]))

\* arrayOf(elemCodec).decode reporting a failing element with the error of a
\* malformed container
arrayOfDecode_sameError(elem, s) ==
  LET parsed == jsonParse(s)
  IN  IF parsed.kind = "throw" THEN Throw(decodeError(s, TN_array))
      ELSE IF \/ parsed.val.t # "array"
              \/ \E n \in 1..Len(parsed.val.items) :
                   parsed.val.items[n].t # "string"
      THEN Throw(decodeError(s, TN_array))
      ELSE LET decs == [n \in 1..Len(parsed.val.items) |->
                          codecDecode(elem, parsed.val.items[n].s)]
           IN  IF FirstThrow(decs) # 0
               THEN Throw(decodeError(s, TN_array))
               ELSE Return(ArrV([n \in 1..Len(decs) |-> decs[n].val]))

\* codecs.arrayOf(elemCodec).decode
arrayOfDecode(elem, s) ==
  LET parsed == jsonParse(s)
  IN  IF parsed.kind = "throw" THEN Throw(decodeError(s, TN_array))
      ELSE IF parsed.val.t # "array" THEN Throw(decodeError(s, TN_array))
      ELSE IF \E n \in 1..Len(parsed.val.items) :
                parsed.val.items[n].t # "string"
      THEN Throw(decodeError(s, TN_array))
      ELSE LET decs == [n \in 1..Len(parsed.val.items) |->
                          codecDecode(elem, parsed.val.items[n].s)]
           IN  IF FirstThrow(decs) # 0
               THEN Throw(decodeError(s, TN_array_of))
               ELSE Return(ArrV([n \in 1..Len(decs) |-> decs[n].val]))

\* codecs.tupleOf(elemCodecs).encode; elemCodecs[i] is undefined beyond the
\* codecs given, and calling its encode throws a TypeError
tupleOfEncode(elems, x) ==
  LET encs == [n \in 1..Len(x.items) |->
                 IF n > Len(elems) THEN Throw(NewError(S_undefined_codec))
                 ELSE codecEncode(elems[n], x.items[n])]
  IN  IF FirstThrow(encs) # 0 THEN encs[FirstThrow(encs)]
      ELSE jsonStringify(ArrV([n \in 1..Len(encs) |-> encs[n].val]))

\* codecs.tupleOf(elemCodecs).decode; the error of a failing element names
\* the text of that element
tupleOfDecode(elems, s) ==
  LET parsed == jsonParse(s)
  IN  IF parsed.kind = "throw" THEN Throw(decodeError(s, TN_tuple))
      ELSE IF \/ parsed.val.t # "array"
              \/ \E n \in 1..Len(parsed.val.items) :
                   parsed.val.items[n].t # "string"
      THEN Throw(decodeError(s, TN_tuple))
      ELSE LET decs == [n \in 1..Len(parsed.val.items) |->
                          IF n > Len(elems)
                          THEN Throw(NewError(S_undefined_codec))
                          ELSE codecDecode(elems[n], parsed.val.items[n].s)]
           IN  IF FirstThrow(decs) # 0
               THEN Throw(decodeError(parsed.val.items[FirstThrow(decs)].s,
                                      TN_tuple_of))
               ELSE Return(ArrV([n \in 1..Len(decs) |-> decs[n].val]))

\* encode / decode of the codec described by cd
codecEncode(cd, x) ==
  CASE cd.c = "arrayOf" -> arrayOfEncode(cd.elem, x)
    [] cd.c = "tupleOf" -> tupleOfEncode(cd.elems, x)
    [] cd.c = "jsonWithValidation" -> jsonEncode(x)
    [] OTHER -> encode(cd.c, x)

codecDecode(cd, s) ==
  CASE cd.c = "arrayOf" -> arrayOfDecode(cd.elem, s)
    [] cd.c = "tupleOf" -> tupleOfDecode(cd.elems, s)
    [] cd.c = "jsonWithValidation" ->
         jsonWithValidationDecode(cd.validatorName, s)
    [] OTHER -> decode(cd.c, s)

(***************************************************************************)
(* BaseStorage.ts                                                          *)
(***************************************************************************)
\* Map.prototype.get followed by `?? null`
mapGet(mm, key) == IF key \in DOMAIN mm THEN Str(mm[key]) ELSE NullV
\* Map.prototype.set
mapSet(mm, key, value) ==
  [k \in (DOMAIN mm) \cup {key} |-> IF k = key THEN value ELSE mm[k]]
\* Map.prototype.clear in place of delete
mapDelete_clear(mm, key) == [k \in {} |-> <<>>]

\* Map.prototype.delete
mapDelete(mm, key) == [k \in (DOMAIN mm) \ {key} |-> mm[k]]

\* Map.prototype.clear
mapClear(mm) == [k \in {} |-> <<>>]

\* createInMemoryStorage handing out the Map allocated first instead of a
\* new one
createInMemoryStorage_shared(st) ==
  [stores |-> IF st = <<>> THEN <<[k \in {} |-> <<>>]>> ELSE st, id |-> 1]

\* createInMemoryStorage(): `new Map()` allocates a Map, which the methods
\* of the returned storage close over; st are the Maps allocated so far
createInMemoryStorage(st) ==
  [stores |-> Append(st, [k \in {} |-> <<>>]), id |-> Len(st) + 1]

\* createAsyncInMemoryStorage(): the same with async methods
createAsyncInMemoryStorage(st) ==
  [stores |-> Append(st, [k \in {} |-> <<>>]), id |-> Len(st) + 1]

\* no exception is raised by the base storage call
NoFault == [t |-> "none", message |-> <<>>, enumerable |-> FALSE]
\* an object literal { message: ... } thrown by a base storage
ObjectWithMessage(message) ==
  [t |-> "object", message |-> message, enumerable |-> TRUE]
\* what a call of a web storage (localStorage / sessionStorage) may throw
Faults == {NewError(S_quota), ObjectWithMessage(S_quota)}

\* BaseStorage.get / set / remove on the content mm; f is the exception the
\* storage raises in this call (NoFault: none).  Each yields the completion
\* of the call and the content afterwards.
baseGet(mm, key, f) ==
  IF f # NoFault THEN [c |-> Throw(f), m |-> mm]
  ELSE [c |-> Return(mapGet(mm, key)), m |-> mm]
baseSet(mm, key, value, f) ==
  IF f # NoFault THEN [c |-> Throw(f), m |-> mm]
  ELSE [c |-> Return(NullV), m |-> mapSet(mm, key, value)]
baseRemove(mm, key, f) ==
  IF f # NoFault THEN [c |-> Throw(f), m |-> mm]
  ELSE [c |-> Return(NullV), m |-> mapDelete(mm, key)]

\* clear() that leaves the Map as it is
baseClear_noop(mm) == [c |-> Return(NullV), m |-> mm]

\* BaseStorage.clear of the in-memory storage
baseClear(mm) == [c |-> Return(NullV), m |-> mapClear(mm)]

\* how a call of a caller-supplied AsyncBaseStorage fails: it throws before
\* returning a promise, or it returns a promise that rejects
SyncThrow(e) == [t |-> "fault", mode |-> "throw", err |-> e]
Rejects(e) == [t |-> "fault", mode |-> "reject", err |-> e]
AsyncFaults ==
  {SyncThrow(NewError(S_quota)), Rejects(NewError(S_quota)),
   Rejects(ObjectWithMessage(S_quota))}

\* AsyncBaseStorage.get / set / remove on the content mm: the completion of
\* the call (c), the settlement of the promise it returned (p) and the
\* content afterwards (m).  The methods of the in-memory storage are async
\* functions whose body runs to its end when they are called.
abaseGet(mm, key, bf) ==
  IF bf = NoFault
  THEN [c |-> Return(PromiseV), p |-> Return(mapGet(mm, key)), m |-> mm]
  ELSE IF bf.mode = "throw" THEN [c |-> Throw(bf.err), p |-> Pending, m |-> mm]
  ELSE [c |-> Return(PromiseV), p |-> Throw(bf.err), m |-> mm]
abaseSet(mm, key, value, bf) ==
  IF bf = NoFault
  THEN [c |-> Return(PromiseV), p |-> Return(NullV),
        m |-> mapSet(mm, key, value)]
  ELSE IF bf.mode = "throw" THEN [c |-> Throw(bf.err), p |-> Pending, m |-> mm]
  ELSE [c |-> Return(PromiseV), p |-> Throw(bf.err), m |-> mm]
abaseRemove(mm, key, bf) ==
  IF bf = NoFault
  THEN [c |-> Return(PromiseV), p |-> Return(NullV), m |-> mapDelete(mm, key)]
  ELSE IF bf.mode = "throw" THEN [c |-> Throw(bf.err), p |-> Pending, m |-> mm]
  ELSE [c |-> Return(PromiseV), p |-> Throw(bf.err), m |-> mm]

(***************************************************************************)
(* TypedStorage.ts                                                         *)
(***************************************************************************)
\* the typed storages constructed over the one base storage
Instances == {"ts", "ts2", "pre", "emp", "nsA", "nsB", "js"}

\* options.keyPrefix of each instance (defined = FALSE: the option is absent)
prefix(i) ==
  CASE i \in {"ts", "ts2", "js", "dyn"} -> [defined |-> FALSE, s |-> <<>>]
    [] i = "pre" -> [defined |-> TRUE, s |-> P_pre]
    [] i = "emp" -> [defined |-> TRUE, s |-> P_empty]
    [] i = "nsA" -> [defined |-> TRUE, s |-> P_a]
    [] i = "nsB" -> [defined |-> TRUE, s |-> P_a_b]

\* createTypedStorage(spec, options) up to `const keyToCodec = spec`: the
\* typed storage keeps the reference to the caller's object
createTypedStorage(spec) == [built |-> TRUE, keyToCodec |-> spec]

\* the spec (key -> Codec) each instance was constructed with; the instance
\* "dyn" reads the object its keyToCodec refers to
keyToCodec(i) ==
  CASE i = "ts" -> (K_key :> "number") @@ (K_nothing :> "string")
                   @@ (K_boom :> "failing")
    [] i = "ts2" -> (K_key :> "string")
    [] i = "pre" -> (K_key :> "number")
    [] i = "emp" -> (K_key :> "number")
    [] i = "nsA" -> (K_b_c :> "string")
    [] i = "nsB" -> (K_c :> "string")
    [] i = "js" -> (K_data :> "json")
    [] i = "dyn" -> objects[typed.keyToCodec]

StorageKeys(i) == DOMAIN keyToCodec(i)

\* prefixed with `if (!prefix)` in place of `if (prefix === undefined)`
prefixed_falsy(i, key) ==
  IF ~prefix(i).defined \/ prefix(i).s = <<>> THEN key
  ELSE prefix(i).s \o <<"_">> \o key

\* prefixed returning the key for every instance
prefixed_ignore(i, key) == key

\* prefixed concatenating the prefix and the key without the `_`
prefixed_noSep(i, key) ==
  IF ~prefix(i).defined THEN key
  ELSE prefix(i).s \o key

prefixed(i, key) ==
  IF ~prefix(i).defined THEN key
  ELSE prefix(i).s \o <<"_">> \o key

hasStringMessage(v) ==
  IF v.t \notin {"Error", "object"} THEN FALSE
  ELSE IF ~v.enumerable THEN FALSE
  ELSE TRUE

errorWithCause(msg, errCause) ==
  IF hasStringMessage(errCause)
  THEN NewError(msg \o <<":", " ">> \o errCause.message)
  ELSE NewError(msg)

\* the message templates of get, set and remove
getMsg(key) ==
  <<"f", "a", "i", "l", "e", "d", " ", "t", "o", " ", "g", "e", "t", " ",
    "v", "a", "l", "u", "e", " ", "f", "r", "o", "m", " ", "s", "t", "o", "r",
    "a", "g", "e", " ", "(", "k", "e", "y", ":", " ", "'">> \o key \o <<"'", ")">>
setMsg(key) ==
  <<"f", "a", "i", "l", "e", "d", " ", "t", "o", " ", "s", "e", "t", " ",
    "v", "a", "l", "u", "e", " ", "f", "r", "o", "m", " ", "s", "t", "o", "r",
    "a", "g", "e", " ", "(", "k", "e", "y", ":", " ", "'">> \o key \o <<"'", ")">>
removeMsg(key) ==
  <<"f", "a", "i", "l", "e", "d", " ", "t", "o", " ", "r", "e", "m", "o", "v",
    "e", " ", "v", "a", "l", "u", "e", " ", "f", "r", "o", "m", " ", "s", "t",
    "o", "r", "a", "g", "e", " ", "(", "k", "e", "y", " ", ":", " ", "'">>
  \o key \o <<"'", ")">>

\* one call of the base storage made by the facade
BaseCall(op, key, value) == [op |-> op, key |-> key, value |-> value]

\* get without the `rawVal === null` test: null reaches the codec, which
\* sees the empty input
tsGet_noNullCheck(i, key, mm, f) ==
  LET b == baseGet(mm, prefixed(i, key), f)
      calls == <<BaseCall("get", prefixed(i, key), NullV)>>
  IN  IF b.c.kind = "throw"
      THEN [res |-> Throw(errorWithCause(getMsg(key), b.c.err)),
            calls |-> calls, codecCalls |-> <<>>, m |-> b.m]
      ELSE LET raw == IF b.c.val = NullV THEN <<>> ELSE b.c.val.s
               d == decode(keyToCodec(i)[key], raw)
           IN  [res |-> IF d.kind = "throw"
                        THEN Throw(errorWithCause(getMsg(key), d.err))
                        ELSE d,
                calls |-> calls, codecCalls |-> <<"decode">>, m |-> b.m]

\* get with `catch { return null }`: a failure is reported as absence
tsGet_swallow(i, key, mm, f) ==
  LET b == baseGet(mm, prefixed(i, key), f)
      calls == <<BaseCall("get", prefixed(i, key), NullV)>>
  IN  IF b.c.kind = "throw"
      THEN [res |-> Return(NullV), calls |-> calls, codecCalls |-> <<>>,
            m |-> b.m]
      ELSE IF b.c.val = NullV
      THEN [res |-> Return(NullV), calls |-> calls, codecCalls |-> <<>>,
            m |-> b.m]
      ELSE LET d == decode(keyToCodec(i)[key], b.c.val.s)
           IN  [res |-> IF d.kind = "throw" THEN Return(NullV) ELSE d,
                calls |-> calls, codecCalls |-> <<"decode">>, m |-> b.m]

\* get serving the value of the preceding set of the same key from a cache
\* filled before the base storage is written
tsGet_cached(i, key, mm, f) ==
  LET b == baseGet(mm, prefixed(i, key), f)
      calls == <<BaseCall("get", prefixed(i, key), NullV)>>
  IN  IF last.inst = i /\ last.op = "set" /\ last.key = key
      THEN [res |-> Return(last.value), calls |-> <<>>, codecCalls |-> <<>>,
            m |-> mm]
      ELSE IF b.c.kind = "throw"
      THEN [res |-> Throw(errorWithCause(getMsg(key), b.c.err)),
            calls |-> calls, codecCalls |-> <<>>, m |-> b.m]
      ELSE IF b.c.val = NullV
      THEN [res |-> Return(NullV), calls |-> calls, codecCalls |-> <<>>,
            m |-> b.m]
      ELSE LET d == decode(keyToCodec(i)[key], b.c.val.s)
           IN  [res |-> IF d.kind = "throw"
                        THEN Throw(errorWithCause(getMsg(key), d.err))
                        ELSE d,
                calls |-> calls, codecCalls |-> <<"decode">>, m |-> b.m]

\* get with `if (!rawVal)` in place of `if (rawVal === null)`
tsGet_emptyAsNull(i, key, mm, f) ==
  LET b == baseGet(mm, prefixed(i, key), f)
      calls == <<BaseCall("get", prefixed(i, key), NullV)>>
  IN  IF b.c.kind = "throw"
      THEN [res |-> Throw(errorWithCause(getMsg(key), b.c.err)),
            calls |-> calls, codecCalls |-> <<>>, m |-> b.m]
      ELSE IF b.c.val = NullV \/ b.c.val = Str(<<>>)
      THEN [res |-> Return(NullV), calls |-> calls, codecCalls |-> <<>>,
            m |-> b.m]
      ELSE LET d == decode(keyToCodec(i)[key], b.c.val.s)
           IN  [res |-> IF d.kind = "throw"
                        THEN Throw(errorWithCause(getMsg(key), d.err))
                        ELSE d,
                calls |-> calls, codecCalls |-> <<"decode">>, m |-> b.m]

\* get removing a raw value that its codec cannot decode
tsGet_evict(i, key, mm, f) ==
  LET b == baseGet(mm, prefixed(i, key), f)
      calls == <<BaseCall("get", prefixed(i, key), NullV)>>
  IN  IF b.c.kind = "throw"
      THEN [res |-> Throw(errorWithCause(getMsg(key), b.c.err)),
            calls |-> calls, codecCalls |-> <<>>, m |-> b.m]
      ELSE IF b.c.val = NullV
      THEN [res |-> Return(NullV), calls |-> calls, codecCalls |-> <<>>,
            m |-> b.m]
      ELSE LET d == decode(keyToCodec(i)[key], b.c.val.s)
           IN  [res |-> IF d.kind = "throw"
                        THEN Throw(errorWithCause(getMsg(key), d.err))
                        ELSE d,
                calls |-> calls, codecCalls |-> <<"decode">>,
                m |-> IF d.kind = "throw" THEN mapDelete(b.m, prefixed(i, key))
                      ELSE b.m]

\* TypedStorage.get(key) of instance i on the base content mm.  The result
\* has the completion of the call (res), the base storage calls it made
\* (calls), the codec functions it invoked (codecCalls) and the base
\* content afterwards (m).
tsGet(i, key, mm, f) ==
  LET b == baseGet(mm, prefixed(i, key), f)
      calls == <<BaseCall("get", prefixed(i, key), NullV)>>
  IN  IF b.c.kind = "throw"
      THEN [res |-> Throw(errorWithCause(getMsg(key), b.c.err)),
            calls |-> calls, codecCalls |-> <<>>, m |-> b.m]
      ELSE IF b.c.val = NullV
      THEN [res |-> Return(NullV), calls |-> calls, codecCalls |-> <<>>,
            m |-> b.m]
      ELSE LET d == decode(keyToCodec(i)[key], b.c.val.s)
           IN  [res |-> IF d.kind = "throw"
                        THEN Throw(errorWithCause(getMsg(key), d.err))
                        ELSE d,
                calls |-> calls, codecCalls |-> <<"decode">>, m |-> b.m]

\* set writing to the logical key instead of the prefixed key
tsSet_unprefixed(i, key, value, mm, f) ==
  LET e == encode(keyToCodec(i)[key], value)
  IN  IF e.kind = "throw"
      THEN [res |-> Throw(errorWithCause(setMsg(key), e.err)),
            calls |-> <<>>, codecCalls |-> <<"encode">>, m |-> mm]
      ELSE LET b == baseSet(mm, key, e.val.s, f)
           IN  [res |-> IF b.c.kind = "throw"
                        THEN Throw(errorWithCause(setMsg(key), b.c.err))
                        ELSE Return(NullV),
                calls |-> <<BaseCall("set", key, e.val)>>,
                codecCalls |-> <<"encode">>, m |-> b.m]

\* set that removes the stored value when encode raises
tsSet_clearOnFailure(i, key, value, mm, f) ==
  LET e == encode(keyToCodec(i)[key], value)
  IN  IF e.kind = "throw"
      THEN [res |-> Throw(errorWithCause(setMsg(key), e.err)),
            calls |-> <<BaseCall("remove", prefixed(i, key), NullV)>>,
            codecCalls |-> <<"encode">>,
            m |-> baseRemove(mm, prefixed(i, key), f).m]
      ELSE LET b == baseSet(mm, prefixed(i, key), e.val.s, f)
           IN  [res |-> IF b.c.kind = "throw"
                        THEN Throw(errorWithCause(setMsg(key), b.c.err))
                        ELSE Return(NullV),
                calls |-> <<BaseCall("set", prefixed(i, key), e.val)>>,
                codecCalls |-> <<"encode">>, m |-> b.m]

\* TypedStorage.set(key, value)
tsSet(i, key, value, mm, f) ==
  LET e == encode(keyToCodec(i)[key], value)
  IN  IF e.kind = "throw"
      THEN [res |-> Throw(errorWithCause(setMsg(key), e.err)),
            calls |-> <<>>, codecCalls |-> <<"encode">>, m |-> mm]
      ELSE LET b == baseSet(mm, prefixed(i, key), e.val.s, f)
           IN  [res |-> IF b.c.kind = "throw"
                        THEN Throw(errorWithCause(setMsg(key), b.c.err))
                        ELSE Return(NullV),
                calls |-> <<BaseCall("set", prefixed(i, key), e.val)>>,
                codecCalls |-> <<"encode">>, m |-> b.m]

\* remove with an empty catch block
tsRemove_swallow(i, key, mm, f) ==
  LET b == baseRemove(mm, prefixed(i, key), f)
  IN  [res |-> Return(NullV),
       calls |-> <<BaseCall("remove", prefixed(i, key), NullV)>>,
       codecCalls |-> <<>>, m |-> b.m]

\* remove calling the base storage a second time when the first call raised
tsRemove_retry(i, key, mm, f) ==
  LET b == baseRemove(mm, prefixed(i, key), f)
      call == BaseCall("remove", prefixed(i, key), NullV)
  IN  [res |-> IF b.c.kind = "throw"
               THEN Throw(errorWithCause(removeMsg(key), b.c.err))
               ELSE Return(NullV),
       calls |-> IF b.c.kind = "throw" THEN <<call, call>> ELSE <<call>>,
       codecCalls |-> <<>>, m |-> b.m]

\* TypedStorage.remove(key)
tsRemove(i, key, mm, f) ==
  LET b == baseRemove(mm, prefixed(i, key), f)
  IN  [res |-> IF b.c.kind = "throw"
               THEN Throw(errorWithCause(removeMsg(key), b.c.err))
               ELSE Return(NullV),
       calls |-> <<BaseCall("remove", prefixed(i, key), NullV)>>,
       codecCalls |-> <<>>, m |-> b.m]

(***************************************************************************)
(* TypedStorage.ts: createAsyncTypedStorage.  A call runs the body of the  *)
(* async function up to its `await` (Invoke); the rest of the body runs    *)
(* when the awaited promise has settled (Resume).                          *)
(***************************************************************************)
\* a function not declared async: an exception of its body reaches the caller
asyncFunction_notAsync(body) ==
  IF body.kind = "throw" THEN [invoked |-> body, res |-> Pending]
  ELSE [invoked |-> Return(PromiseV), res |-> body]

\* what the caller of an async function sees: the call returns a promise,
\* and the completion of the body (Pending while the body is suspended)
\* settles it; an exception of the body rejects the promise
asyncFunction(body) == [invoked |-> Return(PromiseV), res |-> body]

\* AsyncTypedStorage.get(key) up to the await: body is the completion of the
\* function body (Pending when suspended), awaiting the settlement of the
\* awaited promise
atsGetInvoke(i, key, mm, bf) ==
  LET b == abaseGet(mm, prefixed(i, key), bf)
      calls == <<BaseCall("get", prefixed(i, key), NullV)>>
  IN  IF b.c.kind = "throw"
      THEN [body |-> Throw(errorWithCause(getMsg(key), b.c.err)),
            awaiting |-> Pending, calls |-> calls, m |-> b.m]
      ELSE [body |-> Pending, awaiting |-> b.p, calls |-> calls, m |-> b.m]

\* get that returns the raw value without decoding it
atsGetResume_noDecode(i, key, settled) ==
  IF settled.kind = "throw"
  THEN Throw(errorWithCause(getMsg(key), settled.err))
  ELSE settled

\* AsyncTypedStorage.get(key) after the await
atsGetResume(i, key, settled) ==
  IF settled.kind = "throw"
  THEN Throw(errorWithCause(getMsg(key), settled.err))
  ELSE IF settled.val = NullV THEN Return(NullV)
  ELSE LET d == decode(keyToCodec(i)[key], settled.val.s)
       IN  IF d.kind = "throw" THEN Throw(errorWithCause(getMsg(key), d.err))
           ELSE d

\* set suspending before it calls the base storage
atsSetInvoke_deferred(i, key, value, mm, bf) ==
  LET e == encode(keyToCodec(i)[key], value)
  IN  IF e.kind = "throw"
      THEN [body |-> Throw(errorWithCause(setMsg(key), e.err)),
            awaiting |-> Pending, calls |-> <<>>, m |-> mm]
      ELSE [body |-> Pending, awaiting |-> Return(NullV), calls |-> <<>>,
            m |-> mm]

\* AsyncTypedStorage.set(key, value) up to the await
atsSetInvoke(i, key, value, mm, bf) ==
  LET e == encode(keyToCodec(i)[key], value)
  IN  IF e.kind = "throw"
      THEN [body |-> Throw(errorWithCause(setMsg(key), e.err)),
            awaiting |-> Pending, calls |-> <<>>, m |-> mm]
      ELSE LET b == abaseSet(mm, prefixed(i, key), e.val.s, bf)
               calls == <<BaseCall("set", prefixed(i, key), e.val)>>
           IN  IF b.c.kind = "throw"
               THEN [body |-> Throw(errorWithCause(setMsg(key), b.c.err)),
                     awaiting |-> Pending, calls |-> calls, m |-> b.m]
               ELSE [body |-> Pending, awaiting |-> b.p, calls |-> calls,
                     m |-> b.m]

\* AsyncTypedStorage.set(key, value) after the await
atsSetResume(i, key, settled) ==
  IF settled.kind = "throw"
  THEN Throw(errorWithCause(setMsg(key), settled.err))
  ELSE Return(NullV)

\* remove without `await`: the body ends while the promise of the base
\* storage is pending
atsRemoveInvoke_noAwait(i, key, mm, bf) ==
  LET b == abaseRemove(mm, prefixed(i, key), bf)
      calls == <<BaseCall("remove", prefixed(i, key), NullV)>>
  IN  IF b.c.kind = "throw"
      THEN [body |-> Throw(errorWithCause(removeMsg(key), b.c.err)),
            awaiting |-> Pending, calls |-> calls, m |-> b.m]
      ELSE [body |-> Return(NullV), awaiting |-> b.p, calls |-> calls,
            m |-> b.m]

\* AsyncTypedStorage.remove(key) up to the await
atsRemoveInvoke(i, key, mm, bf) ==
  LET b == abaseRemove(mm, prefixed(i, key), bf)
      calls == <<BaseCall("remove", prefixed(i, key), NullV)>>
  IN  IF b.c.kind = "throw"
      THEN [body |-> Throw(errorWithCause(removeMsg(key), b.c.err)),
            awaiting |-> Pending, calls |-> calls, m |-> b.m]
      ELSE [body |-> Pending, awaiting |-> b.p, calls |-> calls, m |-> b.m]

\* AsyncTypedStorage.remove(key) after the await
atsRemoveResume(i, key, settled) ==
  IF settled.kind = "throw"
  THEN Throw(errorWithCause(removeMsg(key), settled.err))
  ELSE Return(NullV)

(***************************************************************************)
(* The state machine.                                                      *)
(***************************************************************************)
EmptyMap == [k \in {} |-> <<>>]

\* base storages the typed storages are constructed over, with the typed
\* storages holding a reference (users) and whether other code calls the base
\* storage directly: a scoped in-memory storage handed to one typed storage,
\* the in-memory singleton shared by every typed storage and by direct
\* callers, and the localStorage singleton shared by two typed storages
Configs ==
  {[base |-> "inMemoryScoped", owner |-> i, users |-> {i}, direct |-> FALSE] :
     i \in Instances}
  \cup {[base |-> "inMemory", owner |-> "-", users |-> Instances \ {"js"},
         direct |-> TRUE],
        [base |-> "webLocal", owner |-> "-", users |-> {"ts", "pre"},
         direct |-> FALSE]}

\* values a caller passes to set() for a key with codec c
ValuesOf(c) ==
  CASE c = "number" -> {IntV(n) : n \in 1..MaxNum} \cup {IntV(100)}
    [] c = "string" -> {Str(<<>>), Str(S_hi)}
    [] c = "failing" -> {IntV(0)}
    [] c = "json" -> {NullV, BoolV(TRUE), Circular}

\* raw strings written into the base storage without a typed storage
DirectWrites == {<<K_key, S_bad_data>>, <<K_boom, S_bad_data>>}

\* instance i holds a reference to the base storage
CanUse(i) == i \in cfg.users
\* the in-memory storages never raise
FaultOk(f) == f = NoFault \/ cfg.base = "webLocal"

Op(i, op, key, value, f, out) ==
  [inst |-> i, op |-> op, key |-> key, value |-> value, fault |-> f,
   res |-> out.res, calls |-> out.calls, codecCalls |-> out.codecCalls]

\* no call has been made yet: of a typed storage, of a codec, of an
\* asynchronous typed storage
NoOp ==
  [inst |-> "-", op |-> "init", key |-> <<>>, value |-> NullV,
   fault |-> NoFault, res |-> Return(NullV), calls |-> <<>>,
   codecCalls |-> <<>>]
NoProbe ==
  [codec |-> Cd("-"), fn |-> "none", arg |-> NullV, mid |-> NullV,
   out |-> Return(NullV)]
NoAsyncOp ==
  [inst |-> "-", op |-> "init", key |-> <<>>, value |-> NullV,
   fault |-> NoFault, step |-> "none", invoked |-> Return(NullV),
   res |-> Return(NullV), calls |-> <<>>]

\* no base storage has been called directly yet
NoBaseCall ==
  [h |-> 0, op |-> "init", key |-> <<>>, value |-> <<>>,
   out |-> Return(NullV)]
\* createTypedStorage has not been called with a spec object
NotBuilt == [built |-> FALSE]

\* no base storage is called directly; no spec object is kept by the caller
BaseIdle ==
  stores = <<>> /\ handles = <<>> /\ latest = <<>> /\ blast = NoBaseCall
BuildIdle == objects = <<>> /\ typed = NotBuilt

\* the codecs and the asynchronous typed storage are not in use
OthersIdle ==
  /\ probe = NoProbe
  /\ am = EmptyMap /\ pending = <<>> /\ alast = NoAsyncOp /\ lockstep = FALSE
  /\ BaseIdle /\ BuildIdle

Init ==
  /\ m = EmptyMap
  /\ cfg \in Configs
  /\ last = NoOp
  /\ shadow = IF cfg.owner = "-" THEN EmptyMap
              ELSE [k \in StorageKeys(cfg.owner) |-> NullV]
  /\ OthersIdle

Get(i, key, f) ==
  /\ CanUse(i) /\ FaultOk(f)
  /\ LET out == tsGet(i, key, m, f)
     IN  /\ m' = out.m
         /\ last' = Op(i, "get", key, NullV, f, out)
  /\ UNCHANGED <<cfg, shadow, codecVars, asyncVars, baseVars, buildVars>>

Set(i, key, value, f) ==
  /\ CanUse(i) /\ FaultOk(f)
  /\ LET out == tsSet(i, key, value, m, f)
     IN  /\ m' = out.m
         /\ last' = Op(i, "set", key, value, f, out)
         /\ shadow' = IF cfg.owner = i /\ out.res.kind = "return"
                      THEN [shadow EXCEPT ![key] = value]
                      ELSE shadow
  /\ UNCHANGED <<cfg, codecVars, asyncVars, baseVars, buildVars>>

Remove(i, key, f) ==
  /\ CanUse(i) /\ FaultOk(f)
  /\ LET out == tsRemove(i, key, m, f)
     IN  /\ m' = out.m
         /\ last' = Op(i, "remove", key, NullV, f, out)
         /\ shadow' = IF cfg.owner = i /\ out.res.kind = "return"
                      THEN [shadow EXCEPT ![key] = NullV]
                      ELSE shadow
  /\ UNCHANGED <<cfg, codecVars, asyncVars, baseVars, buildVars>>

\* baseStorages.inMemory.set(key, value) called directly
DirectSet(key, value) ==
  /\ cfg.direct
  /\ LET b == baseSet(m, key, value, NoFault)
     IN  /\ m' = b.m
         /\ last' = [inst |-> "direct", op |-> "set", key |-> key,
                     value |-> Str(value), fault |-> NoFault, res |-> b.c,
                     calls |-> <<BaseCall("set", key, Str(value))>>,
                     codecCalls |-> <<>>]
  /\ UNCHANGED <<cfg, shadow, codecVars, asyncVars, baseVars, buildVars>>

\* baseStorages.inMemory.remove(key) called directly
DirectRemove(key) ==
  /\ cfg.direct
  /\ LET b == baseRemove(m, key, NoFault)
     IN  /\ m' = b.m
         /\ last' = [inst |-> "direct", op |-> "remove", key |-> key,
                     value |-> NullV, fault |-> NoFault, res |-> b.c,
                     calls |-> <<BaseCall("remove", key, NullV)>>,
                     codecCalls |-> <<>>]
  /\ UNCHANGED <<cfg, shadow, codecVars, asyncVars, baseVars, buildVars>>

Next ==
  \/ \E i \in Instances, f \in Faults \cup {NoFault} :
       \E key \in StorageKeys(i) : Get(i, key, f)
  \/ \E i \in Instances, f \in Faults \cup {NoFault} :
       \E key \in StorageKeys(i) :
         \E value \in ValuesOf(keyToCodec(i)[key]) : Set(i, key, value, f)
  \/ \E i \in Instances, f \in Faults \cup {NoFault} :
       \E key \in StorageKeys(i) : Remove(i, key, f)
  \/ \E w \in DirectWrites : DirectSet(w[1], w[2])
  \/ \E w \in DirectWrites : DirectRemove(w[1])

Spec == Init /\ [][Next]_vars

(***************************************************************************)
(* Calls of the codec functions on their own.  The codec, the function and *)
(* its argument are drawn in the initial state; the one step applies the   *)
(* function.                                                               *)
(***************************************************************************)
S_beyond == <<"9", "0", "0", "7", "1", "9", "9", "2", "5", "4", "7", "4", "0",
              "9", "9", "3">>
S_quote == <<"a", "\"", "b">>
S_backslash == <<"\\">>

Primitives == {"string", "number", "bigint", "boolean"}

\* the codecs under test
CodecCatalog ==
  {Cd("string"), Cd("number"), Cd("bigint"), Cd("boolean"),
   ArrayOf(Cd("number")), ArrayOf(Cd("string")), ArrayOf(Cd("boolean")),
   ArrayOf(ArrayOf(Cd("number"))), ArrayOf(Cd("json")),
   TupleOf(<<Cd("number"), Cd("boolean")>>),
   TupleOf(<<Cd("string"), Cd("bigint"), Cd("number")>>),
   JsonWithValidation(NoName), JsonWithValidation(Name(<<>>)),
   JsonWithValidation(Name(S_zod))}

\* the arrays of at most MaxLen elements taken from S
Arrays(S) == {ArrV(a) : a \in UNION {[1..n -> S] : n \in 0..MaxLen}}

RECURSIVE ElemSample(_)
\* values used as elements of arrays and tuples
ElemSample(cd) ==
  CASE cd.c = "string" -> {Str(<<>>), Str(S_quote)}
    [] cd.c = "number" -> {Num("negzero", 0), NaNV}
    [] cd.c = "bigint" -> {BigIntV(TRUE, S_beyond)}
    [] cd.c = "boolean" -> {BoolV(TRUE), BoolV(FALSE)}
    [] cd.c = "json" -> {NaNV, BoolV(TRUE)}
    [] cd.c = "arrayOf" -> Arrays(ElemSample(cd.elem))

\* the tuples whose element n is a sample of the codec elems[n]
Tuples(elems) ==
  {ArrV(a) : a \in {f \in [1..Len(elems) ->
                             UNION {ElemSample(elems[n]) : n \in 1..Len(elems)}] :
                      \A n \in 1..Len(elems) : f[n] \in ElemSample(elems[n])}}

\* values of the domain of the codec cd that are passed to encode
DomainOf(cd) ==
  CASE cd.c = "string" ->
         {Str(<<>>), Str(S_hi), Str(S_true), Str(S_quote), Str(S_backslash),
          Str(<<" ", "1">>)}
    [] cd.c = "number" ->
         {IntV(0), Num("negzero", 0), IntV(1), IntV(-1), IntV(100), NaNV,
          Num("inf", 0), Num("ninf", 0), MAX_SAFE_INTEGER, MIN_SAFE_INTEGER}
    [] cd.c = "bigint" ->
         {BigIntV(FALSE, <<"0">>), BigIntV(FALSE, <<"1">>),
          BigIntV(TRUE, <<"1">>), BigIntV(FALSE, S_beyond),
          BigIntV(TRUE, S_beyond)}
    [] cd.c = "boolean" -> {BoolV(TRUE), BoolV(FALSE)}
    [] cd.c = "arrayOf" -> Arrays(ElemSample(cd.elem))
    [] cd.c = "tupleOf" -> Tuples(cd.elems)
    [] cd.c = "jsonWithValidation" -> {BoolV(TRUE), BoolV(FALSE), NullV}

\* strings passed to decode
DecodeTexts ==
  {<<>>, <<" ">>, <<"N", "a", "N">>,
   <<"n", "o", "t", " ", "a", " ", "n", "u", "m", "b", "e", "r">>,
   <<"a", "b", "c">>, <<"t", "r", "u", "e">>, <<"f", "a", "l", "s", "e">>,
   <<" ", "t", "r", "u", "e">>, <<"t", "r", "u", "e", " ">>, <<"[", "]">>,
   <<"{", "}">>, <<"n", "u", "l", "l">>,
   <<"u", "n", "d", "e", "f", "i", "n", "e", "d">>, <<"1">>, <<"0">>,
   <<"-", "0">>, <<"-", "1">>, <<"1", "0", "0">>, <<"0", "1">>, <<"+", "1">>,
   <<" ", "1">>, <<"1", " ">>, <<"I", "n", "f", "i", "n", "i", "t", "y">>,
   <<"-", "I", "n", "f", "i", "n", "i", "t", "y">>,
   <<"+", "I", "n", "f", "i", "n", "i", "t", "y">>, <<"h", "o", "g", "e">>,
   <<"y", "e", "s">>, <<"n", "o">>, <<"1", "n">>,
   <<"9", "0", "0", "7", "1", "9", "9", "2", "5", "4", "7", "4", "0", "9", "9", "1">>,
   <<"\"", "t", "r", "u", "e", "\"">>, <<"[", " ", "]">>, <<"[", "1", "]">>,
   <<"[", "\"", "1", "\"", "]">>,
   <<"[", "\"", "t", "r", "u", "e", "\"", ",", " ", "\"", "f", "a", "l", "s", "e", "\"", ",", " ", "\"", "1", "\"", "]">>,
   <<"[", "\"", "-", "0", "\"", ",", "\"", "N", "a", "N", "\"", "]">>,
   <<"[", "\"", "1", "\"", ",", "\"", "t", "r", "u", "e", "\"", "]">>,
   <<"[", "\"", "1", "\"", "]", "]">>, <<"[", "[", "]", "]">>,
   <<"[", "\"", "[", "]", "\"", "]">>, <<"[", "\"", "h", "i", "\"">>,
   <<"s", "t", "r">>}

CodecCalls ==
  UNION {{[codec |-> cd, fn |-> fn, arg |-> x, mid |-> Pending,
                out |-> Pending] :
                 fn \in {"encode", "roundtrip"}, x \in DomainOf(cd)} :
              cd \in CodecCatalog}
  \cup {[codec |-> cd, fn |-> "decode", arg |-> Str(t), mid |-> Pending,
         out |-> Pending] : cd \in CodecCatalog, t \in DecodeTexts}

InitCodec ==
  /\ m = EmptyMap
  /\ cfg = [base |-> "none", owner |-> "-", users |-> {}, direct |-> FALSE]
  /\ last = NoOp
  /\ shadow = EmptyMap
  /\ probe \in CodecCalls
  /\ am = EmptyMap /\ pending = <<>> /\ alast = NoAsyncOp /\ lockstep = FALSE
  /\ BaseIdle /\ BuildIdle

\* codec.encode(x)
Encode ==
  /\ probe.fn = "encode" /\ probe.out = Pending
  /\ probe' = [probe EXCEPT !.out = codecEncode(probe.codec, probe.arg)]
  /\ UNCHANGED <<m, cfg, last, shadow, asyncVars, baseVars, buildVars>>

\* codec.decode(s)
Decode ==
  /\ probe.fn = "decode" /\ probe.out = Pending
  /\ probe' = [probe EXCEPT !.out = codecDecode(probe.codec, probe.arg.s)]
  /\ UNCHANGED <<m, cfg, last, shadow, asyncVars, baseVars, buildVars>>

\* codec.decode(codec.encode(x)); mid is the completion of encode
EncodeThenDecode ==
  /\ probe.fn = "roundtrip" /\ probe.out = Pending
  /\ LET e == codecEncode(probe.codec, probe.arg)
     IN  probe' = [probe EXCEPT
                     !.mid = e,
                     !.out = IF e.kind = "throw" THEN e
                             ELSE codecDecode(probe.codec, e.val.s)]
  /\ UNCHANGED <<m, cfg, last, shadow, asyncVars, baseVars, buildVars>>

NextCodec ==
  \/ Encode
  \/ Decode
  \/ EncodeThenDecode

SpecCodec == InitCodec /\ [][NextCodec]_vars

(***************************************************************************)
(* The asynchronous typed storage.  While every call has been awaited      *)
(* before the next one was issued (lockstep), the same calls are made on a *)
(* synchronous typed storage with the same spec and keyPrefix over its own *)
(* in-memory base storage, whose content is m and whose outcome is last.   *)
(***************************************************************************)
\* the async in-memory storage, which never fails, and a caller-supplied
\* AsyncBaseStorage whose calls may fail
AsyncConfigs ==
  {[base |-> "inMemoryAsync", owner |-> "-", users |-> {"ts", "ts2", "pre"},
    direct |-> FALSE],
   [base |-> "customAsync", owner |-> "-", users |-> {"pre"},
    direct |-> FALSE]}

AsyncFaultOk(bf) == bf = NoFault \/ cfg.base = "customAsync"

InitAsync ==
  /\ m = EmptyMap
  /\ cfg \in AsyncConfigs
  /\ last = NoOp
  /\ shadow = EmptyMap
  /\ probe = NoProbe
  /\ am = EmptyMap
  /\ pending = <<>>
  /\ alast = NoAsyncOp
  /\ lockstep = (cfg.base = "inMemoryAsync")
  /\ BaseIdle /\ BuildIdle

\* the call op(key, value) of instance i is made: out is the run of the
\* function up to its await, sy the run of the same call on the synchronous
\* typed storage
Invoke(i, op, key, value, bf, out, sy) ==
  /\ am' = out.m
  /\ pending' = IF out.body = Pending
                THEN Append(pending, [inst |-> i, op |-> op, key |-> key,
                                      value |-> value, fault |-> bf,
                                      awaiting |-> out.awaiting])
                ELSE pending
  /\ alast' = [inst |-> i, op |-> op, key |-> key, value |-> value,
               fault |-> bf, step |-> "invoke",
               invoked |-> asyncFunction(out.body).invoked,
               res |-> asyncFunction(out.body).res, calls |-> out.calls]
  /\ lockstep' = (lockstep /\ pending = <<>>)
  /\ IF lockstep /\ pending = <<>>
     THEN m' = sy.m /\ last' = Op(i, op, key, value, NoFault, sy)
     ELSE m' = EmptyMap /\ last' = NoOp
  /\ UNCHANGED <<cfg, shadow, codecVars, baseVars, buildVars>>

AGet(i, key, bf) ==
  /\ CanUse(i) /\ AsyncFaultOk(bf)
  /\ Len(pending) < MaxPending
  /\ Invoke(i, "get", key, NullV, bf, atsGetInvoke(i, key, am, bf),
            tsGet(i, key, m, NoFault))

ASet(i, key, value, bf) ==
  /\ CanUse(i) /\ AsyncFaultOk(bf)
  /\ Len(pending) < MaxPending
  /\ Invoke(i, "set", key, value, bf, atsSetInvoke(i, key, value, am, bf),
            tsSet(i, key, value, m, NoFault))

ARemove(i, key, bf) ==
  /\ CanUse(i) /\ AsyncFaultOk(bf)
  /\ Len(pending) < MaxPending
  /\ Invoke(i, "remove", key, NullV, bf, atsRemoveInvoke(i, key, am, bf),
            tsRemove(i, key, m, NoFault))

\* the promise awaited by the n-th suspended call has settled and the call
\* runs to its end.  The promises of the in-memory storage are settled when
\* they are returned, so its calls resume in the order they were issued.
AResume(n) ==
  /\ n \in 1..Len(pending)
  /\ cfg.base = "inMemoryAsync" => n = 1
  /\ LET e == pending[n]
         body == CASE e.op = "get" -> atsGetResume(e.inst, e.key, e.awaiting)
                   [] e.op = "set" -> atsSetResume(e.inst, e.key, e.awaiting)
                   [] e.op = "remove" ->
                        atsRemoveResume(e.inst, e.key, e.awaiting)
     IN  alast' = [inst |-> e.inst, op |-> e.op, key |-> e.key,
                   value |-> e.value, fault |-> e.fault, step |-> "resume",
                   invoked |-> asyncFunction(body).invoked,
                   res |-> asyncFunction(body).res, calls |-> <<>>]
  /\ pending' = SubSeq(pending, 1, n - 1)
                \o SubSeq(pending, n + 1, Len(pending))
  /\ UNCHANGED <<m, cfg, last, shadow, codecVars, am, lockstep, baseVars,
               buildVars>>

NextAsync ==
  \/ \E i \in Instances, bf \in AsyncFaults \cup {NoFault} :
       \E key \in StorageKeys(i) : AGet(i, key, bf)
  \/ \E i \in Instances, bf \in AsyncFaults \cup {NoFault} :
       \E key \in StorageKeys(i) :
         \E value \in ValuesOf(keyToCodec(i)[key]) : ASet(i, key, value, bf)
  \/ \E i \in Instances, bf \in AsyncFaults \cup {NoFault} :
       \E key \in StorageKeys(i) : ARemove(i, key, bf)
  \/ \E n \in 1..MaxPending : AResume(n)

SpecAsync == InitAsync /\ [][NextAsync]_vars

\* The asynchronous typed storage over a caller-supplied base storage whose
\* promises settle, resolving or rejecting: the job queue then runs the
\* continuation of the call awaiting the promise, so that the suspended call
\* at the head of the calls in flight resumes.
InitAsyncCustom ==
  /\ InitAsync
  /\ cfg.base = "customAsync"

SpecAsyncFair == InitAsyncCustom /\ [][NextAsync]_vars /\ WF_vars(AResume(1))

(***************************************************************************)
(* A typed storage created from a spec object that the caller keeps and    *)
(* may change afterwards.                                                  *)
(***************************************************************************)
\* the caller's spec object is the first object created
SpecRef == 1
\* codecs the caller puts under a key of the spec object: codecs.number,
\* a JSON codec accepting every value, and a codec of its own that raises
BuildCodecs == {"number", "json", "failing"}
\* values passed to set()
BuildValues == {IntV(1), NaNV}

\* `const spec = { key: codec }`
InitBuild ==
  /\ m = EmptyMap
  /\ cfg = [base |-> "inMemoryScoped", owner |-> "dyn", users |-> {"dyn"},
            direct |-> FALSE]
  /\ last = NoOp
  /\ shadow = EmptyMap
  /\ probe = NoProbe
  /\ am = EmptyMap /\ pending = <<>> /\ alast = NoAsyncOp /\ lockstep = FALSE
  /\ BaseIdle
  /\ objects \in {<<o>> : o \in [{K_key} -> BuildCodecs]}
  /\ typed = NotBuilt

\* createTypedStorage(spec, { base: baseStorages.inMemoryScoped() }); given is
\* the content of the spec object at this moment
CreateTypedStorage ==
  /\ ~typed.built
  /\ typed' = [built |-> createTypedStorage(SpecRef).built,
               keyToCodec |-> createTypedStorage(SpecRef).keyToCodec,
               given |-> objects[SpecRef]]
  /\ UNCHANGED <<m, cfg, last, shadow, objects, codecVars, asyncVars,
                 baseVars>>

\* the caller assigns `spec[key] = c`
CallerAssigns(key, c) ==
  /\ objects' = [objects EXCEPT ![SpecRef][key] = c]
  /\ UNCHANGED <<m, cfg, last, shadow, typed, codecVars, asyncVars,
                 baseVars>>

\* get(key) of the typed storage created from the spec object
DynGet(key) ==
  /\ typed.built
  /\ LET out == tsGet("dyn", key, m, NoFault)
     IN  /\ m' = out.m
         /\ last' = Op("dyn", "get", key, NullV, NoFault, out)
  /\ UNCHANGED <<cfg, shadow, codecVars, asyncVars, baseVars, buildVars>>

\* set(key, value) of the typed storage created from the spec object
DynSet(key, value) ==
  /\ typed.built
  /\ LET out == tsSet("dyn", key, value, m, NoFault)
     IN  /\ m' = out.m
         /\ last' = Op("dyn", "set", key, value, NoFault, out)
  /\ UNCHANGED <<cfg, shadow, codecVars, asyncVars, baseVars, buildVars>>

\* remove(key) of the typed storage created from the spec object
DynRemove(key) ==
  /\ typed.built
  /\ LET out == tsRemove("dyn", key, m, NoFault)
     IN  /\ m' = out.m
         /\ last' = Op("dyn", "remove", key, NullV, NoFault, out)
  /\ UNCHANGED <<cfg, shadow, codecVars, asyncVars, baseVars, buildVars>>

NextBuild ==
  \/ CreateTypedStorage
  \/ \E c \in BuildCodecs : CallerAssigns(K_key, c)
  \/ DynGet(K_key)
  \/ \E value \in BuildValues : DynSet(K_key, value)
  \/ DynRemove(K_key)

SpecBuild == InitBuild /\ [][NextBuild]_vars

(***************************************************************************)
(* The synchronous and the asynchronous typed storage together: a run is   *)
(* a run of the one or of the other, as the base storage drawn in the      *)
(* initial state decides.                                                  *)
(***************************************************************************)
InitBoth == Init \/ InitAsync

\* a call of a synchronous typed storage, or of its base storage
SyncStep ==
  /\ cfg \in Configs
  /\ Next

\* a call of an asynchronous typed storage, or its continuation
AsyncStep ==
  /\ cfg \in AsyncConfigs
  /\ NextAsync

NextBoth ==
  \/ SyncStep
  \/ AsyncStep

SpecBoth == InitBoth /\ [][NextBoth]_vars

(***************************************************************************)
(* The in-memory base storages called directly: the baseStorages.inMemory  *)
(* singleton, created when the module is loaded, and the storages created  *)
(* by inMemoryScoped() and inMemoryScopedAsync().                          *)
(***************************************************************************)
K_foo == <<"f", "o", "o">>
S_value == <<"v", "a", "l", "u", "e">>
S_value1 == <<"v", "a", "l", "u", "e", "1">>
S_value2 == <<"v", "a", "l", "u", "e", "2">>

\* at most MaxScoped scoped storages are created
MaxScoped == 2

\* keys and values of the direct calls
BaseKeys == {K_key, K_foo}
BaseValues(key) == IF key = K_key THEN {S_value1, S_value2} ELSE {S_value}

\* a handle of an in-memory storage: the Map its methods close over, and
\* whether its methods are async
Handle(id, async) == [id |-> id, async |-> async]
NothingSet == [k \in BaseKeys |-> NullV]

\* a call made on handle h and its outcome
BaseCallOf(h, op, key, value, out) ==
  [h |-> h, op |-> op, key |-> key, value |-> value, out |-> out]

\* the module has been loaded: `inMemory: Object.freeze(createInMemoryStorage())`
InitBase ==
  /\ m = EmptyMap
  /\ cfg = [base |-> "none", owner |-> "-", users |-> {}, direct |-> FALSE]
  /\ last = NoOp
  /\ shadow = EmptyMap
  /\ probe = NoProbe
  /\ am = EmptyMap /\ pending = <<>> /\ alast = NoAsyncOp /\ lockstep = FALSE
  /\ stores = createInMemoryStorage(<<>>).stores
  /\ handles = <<Handle(createInMemoryStorage(<<>>).id, FALSE)>>
  /\ latest = <<NothingSet>>
  /\ blast = NoBaseCall
  /\ BuildIdle

\* baseStorages.inMemoryScoped()
InMemoryScoped ==
  /\ Len(handles) < 1 + MaxScoped
  /\ LET r == createInMemoryStorage(stores)
     IN  /\ stores' = r.stores
         /\ handles' = Append(handles, Handle(r.id, FALSE))
  /\ latest' = Append(latest, NothingSet)
  /\ blast' = BaseCallOf(Len(handles) + 1, "create", <<>>, <<>>,
                         Return(NullV))
  /\ UNCHANGED <<m, cfg, last, shadow, codecVars, asyncVars, buildVars>>

\* baseStorages.inMemoryScopedAsync()
InMemoryScopedAsync ==
  /\ Len(handles) < 1 + MaxScoped
  /\ LET r == createAsyncInMemoryStorage(stores)
     IN  /\ stores' = r.stores
         /\ handles' = Append(handles, Handle(r.id, TRUE))
  /\ latest' = Append(latest, NothingSet)
  /\ blast' = BaseCallOf(Len(handles) + 1, "create", <<>>, <<>>,
                         Return(NullV))
  /\ UNCHANGED <<m, cfg, last, shadow, codecVars, asyncVars, buildVars>>

\* storage.get(key) on handle h; out is what the call returns, or what the
\* promise it returns resolves with
BaseGet(h, key) ==
  /\ h \in 1..Len(handles)
  /\ LET mm == stores[handles[h].id]
         out == IF handles[h].async THEN abaseGet(mm, key, NoFault).p
                ELSE baseGet(mm, key, NoFault).c
     IN  blast' = BaseCallOf(h, "get", key, <<>>, out)
  /\ UNCHANGED <<stores, handles, latest>>
  /\ UNCHANGED <<m, cfg, last, shadow, codecVars, asyncVars, buildVars>>

\* storage.set(key, value) on handle h
BaseSet(h, key, value) ==
  /\ h \in 1..Len(handles)
  /\ LET mm == stores[handles[h].id]
         b == IF handles[h].async
              THEN [c |-> abaseSet(mm, key, value, NoFault).p,
                    m |-> abaseSet(mm, key, value, NoFault).m]
              ELSE baseSet(mm, key, value, NoFault)
     IN  /\ stores' = [stores EXCEPT ![handles[h].id] = b.m]
         /\ blast' = BaseCallOf(h, "set", key, value, b.c)
  /\ latest' = [latest EXCEPT ![h][key] = Str(value)]
  /\ UNCHANGED handles
  /\ UNCHANGED <<m, cfg, last, shadow, codecVars, asyncVars, buildVars>>

\* storage.remove(key) on handle h
BaseRemove(h, key) ==
  /\ h \in 1..Len(handles)
  /\ LET mm == stores[handles[h].id]
         b == IF handles[h].async
              THEN [c |-> abaseRemove(mm, key, NoFault).p,
                    m |-> abaseRemove(mm, key, NoFault).m]
              ELSE baseRemove(mm, key, NoFault)
     IN  /\ stores' = [stores EXCEPT ![handles[h].id] = b.m]
         /\ blast' = BaseCallOf(h, "remove", key, <<>>, b.c)
  /\ latest' = [latest EXCEPT ![h][key] = NullV]
  /\ UNCHANGED handles
  /\ UNCHANGED <<m, cfg, last, shadow, codecVars, asyncVars, buildVars>>

\* storage.clear() on handle h; the async storage has no clear
BaseClear(h) ==
  /\ h \in 1..Len(handles)
  /\ ~handles[h].async
  /\ LET b == baseClear(stores[handles[h].id])
     IN  /\ stores' = [stores EXCEPT ![handles[h].id] = b.m]
         /\ blast' = BaseCallOf(h, "clear", <<>>, <<>>, b.c)
  /\ latest' = [latest EXCEPT ![h] = NothingSet]
  /\ UNCHANGED handles
  /\ UNCHANGED <<m, cfg, last, shadow, codecVars, asyncVars, buildVars>>

NextBase ==
  \/ InMemoryScoped
  \/ InMemoryScopedAsync
  \/ \E h \in 1..(1 + MaxScoped), key \in BaseKeys : BaseGet(h, key)
  \/ \E h \in 1..(1 + MaxScoped), key \in BaseKeys :
       \E value \in BaseValues(key) : BaseSet(h, key, value)
  \/ \E h \in 1..(1 + MaxScoped), key \in BaseKeys : BaseRemove(h, key)
  \/ \E h \in 1..(1 + MaxScoped) : BaseClear(h)

SpecBase == InitBase /\ [][NextBase]_vars

(***************************************************************************)
(* Properties.                                                             *)
(***************************************************************************)
\* what get(key) of instance i returns in the current state when the base
\* storage does not raise
GetNow(i, key) == tsGet(i, key, m, NoFault).res

\* the physical key the documentation gives for logical key `key`:
\* `${keyPrefix}_${key}` when keyPrefix is set, `key` otherwise
DocumentedKey(i, key) ==
  IF prefix(i).defined THEN prefix(i).s \o <<"_">> \o key ELSE key

\* codec c satisfies the round-trip law on the values passed to set()
RoundTripLaw(c) ==
  \A x \in ValuesOf(c) :
    /\ encode(c, x).kind = "return"
    /\ decode(c, encode(c, x).val.s) = Return(x)

\* the last step was a call of op on a typed storage
FacadeOp(op) == last.inst \in Instances /\ last.op = op

\* C1: over a scoped in-memory base storage used through one typed storage
\* only, get(k) returns the value of the most recent set(k, v) that no
\* remove(k) followed, for every key whose codec satisfies the round-trip law.
C1_GetReturnsLastSet ==
  cfg.base = "inMemoryScoped" =>
    \A k \in StorageKeys(cfg.owner) :
      (RoundTripLaw(keyToCodec(cfg.owner)[k]) /\ shadow[k] # NullV)
        => GetNow(cfg.owner, k) = Return(shadow[k])

\* a get of 'key' returned 100 after set('key', 100), as in the test
C1_Witness ==
  /\ cfg.base = "inMemoryScoped" /\ cfg.owner = "ts"
  /\ FacadeOp("get") /\ last.key = K_key
  /\ shadow[K_key] = IntV(100)
  /\ last.res = Return(IntV(100))

\* C2: get(k) on a key whose physical slot holds no value returns null and
\* does not invoke the codec's decode.
C2_AbsentIsNullWithoutDecode ==
  /\ \A i \in cfg.users : \A k \in StorageKeys(i) :
       DocumentedKey(i, k) \notin DOMAIN m =>
         /\ tsGet(i, k, m, NoFault).res = Return(NullV)
         /\ tsGet(i, k, m, NoFault).codecCalls = <<>>
  /\ (FacadeOp("get") /\ last.fault = NoFault
      /\ DocumentedKey(last.inst, last.key) \notin DOMAIN m)
       => (last.res = Return(NullV) /\ last.codecCalls = <<>>)

\* get('boom') returned null although the codec of 'boom' raises on every input
C2_Witness ==
  /\ FacadeOp("get") /\ last.key = K_boom
  /\ keyToCodec(last.inst)[last.key] = "failing"
  /\ K_boom \notin DOMAIN m
  /\ last.res = Return(NullV)

\* C3: when the raw string held at k's physical key is not decodable by k's
\* codec, get(k) raises: it returns neither a value nor null.
C3_CorruptionRaises ==
  /\ \A i \in cfg.users : \A k \in StorageKeys(i) :
       (/\ DocumentedKey(i, k) \in DOMAIN m
        /\ decode(keyToCodec(i)[k], m[DocumentedKey(i, k)]).kind = "throw")
         => GetNow(i, k).kind = "throw"
  /\ (/\ FacadeOp("get")
      /\ DocumentedKey(last.inst, last.key) \in DOMAIN m
      /\ decode(keyToCodec(last.inst)[last.key],
                m[DocumentedKey(last.inst, last.key)]).kind = "throw")
       => last.res.kind = "throw"

\* 'bad_data' was written directly under the number-typed 'key' and get raised
C3_Witness ==
  /\ FacadeOp("get") /\ last.inst = "ts" /\ last.key = K_key
  /\ K_key \in DOMAIN m /\ m[K_key] = S_bad_data
  /\ last.res.kind = "throw"

\* C4: after remove(k), get(k) returns null until the next set(k, v), and the
\* remove leaves what get returns for every other key of the storage unchanged.
C4_RemoveStep ==
  (FacadeOp("remove")' /\ last'.res.kind = "return") =>
    LET i == last'.inst
        k == last'.key
    IN  /\ tsGet(i, k, m', NoFault).res = Return(NullV)
        /\ \A k2 \in StorageKeys(i) \ {k} :
             tsGet(i, k2, m', NoFault).res = tsGet(i, k2, m, NoFault).res
C4_NullUntilSet ==
  cfg.base = "inMemoryScoped" =>
    \A k \in StorageKeys(cfg.owner) :
      shadow[k] = NullV => GetNow(cfg.owner, k) = Return(NullV)
C4_RemoveThenNull == [][C4_RemoveStep]_vars /\ []C4_NullUntilSet

\* two keys were set, one was removed: its get is null, the other's is not
C4_Witness ==
  /\ FacadeOp("remove") /\ last.inst = "ts" /\ last.key = K_key
  /\ last.res.kind = "return"
  /\ GetNow("ts", K_key) = Return(NullV)
  /\ GetNow("ts", K_nothing) = Return(Str(S_hi))

\* C5: every get/set/remove on logical key k of a typed storage constructed
\* with keyPrefix p (the empty string included) calls the base storage with
\* exactly the key p + '_' + k, and with exactly k when constructed without
\* keyPrefix; no other key of the base storage is touched.
C5_CallsOnDocumentedKey ==
  last.inst \in Instances =>
    /\ \A n \in 1..Len(last.calls) :
         last.calls[n].key = DocumentedKey(last.inst, last.key)
    /\ (last.op \in {"get", "remove"} \/ "encode" \notin
          {last.codecCalls[n] : n \in 1..Len(last.codecCalls)}
        \/ encode(keyToCodec(last.inst)[last.key], last.value).kind = "return")
         => Len(last.calls) = 1
C5_OtherKeysUntouched ==
  last'.inst \in Instances =>
    LET i == last'.inst
        k == last'.key
    IN  \A pk \in ((DOMAIN m) \cup (DOMAIN m')) \ {DocumentedKey(i, k)} :
          pk \in DOMAIN m /\ pk \in DOMAIN m' /\ m'[pk] = m[pk]
C6_PrefixAsTestStates ==
  (/\ cfg.base = "inMemory"
   /\ FacadeOp("set") /\ last.inst = "pre" /\ last.key = K_key
   /\ last.value = IntV(1) /\ last.res.kind = "return")
    => /\ GetNow("pre", K_key) = Return(IntV(1))
       /\ mapGet(m, S_pre_key) # NullV
       /\ mapGet(m, K_key) = NullV

\* C7: for two typed storages over the same base storage with different
\* keyPrefix values (or one without keyPrefix) and a key name k of both, no
\* set or remove on k through one changes what get(k) returns through the
\* other.
C7_Step ==
  (last'.inst \in Instances /\ last'.op \in {"set", "remove"}) =>
    LET i == last'.inst
        k == last'.key
    IN  \A j \in cfg.users \ {i} :
          (prefix(i) # prefix(j) /\ k \in StorageKeys(j))
            => tsGet(j, k, m', NoFault).res = tsGet(j, k, m, NoFault).res
C7_SameNameIsolation == [][C7_Step]_vars

\* 'key' holds different values through the unprefixed and the prefixed storage
C7_Witness ==
  /\ FacadeOp("set") /\ last.inst = "pre" /\ last.key = K_key
  /\ last.res.kind = "return"
  /\ GetNow("pre", K_key) = Return(IntV(100))
  /\ GetNow("ts", K_key) = Return(IntV(1))
  /\ GetNow("emp", K_key) = Return(NullV)

HasUnderscore(k) == \E n \in 1..Len(k) : k[n] = "_"

\* C8 as stated: two typed storages with different keyPrefix values (or one
\* without) never map a logical key of one and a logical key of the other to
\* the same physical key, and no operation through one changes the result of
\* any get through the other.
C8_Step ==
  (last'.inst \in Instances /\ last'.op \in {"set", "remove"}) =>
    LET i == last'.inst
        k1 == last'.key
    IN  \A j \in cfg.users \ {i} : \A k2 \in StorageKeys(j) :
          prefix(i) # prefix(j)
            => /\ prefixed(i, k1) # prefixed(j, k2)
               /\ tsGet(j, k2, m', NoFault).res = tsGet(j, k2, m, NoFault).res
C8_NoCollisions == [][C8_Step]_vars

\* C8 amended: the same for logical keys that do not contain '_'.
C8_StepNoUnderscore ==
  (last'.inst \in Instances /\ last'.op \in {"set", "remove"}) =>
    LET i == last'.inst
        k1 == last'.key
    IN  \A j \in cfg.users \ {i} : \A k2 \in StorageKeys(j) :
          (prefix(i) # prefix(j) /\ ~HasUnderscore(k1) /\ ~HasUnderscore(k2))
            => /\ prefixed(i, k1) # prefixed(j, k2)
               /\ tsGet(j, k2, m', NoFault).res = tsGet(j, k2, m, NoFault).res
C8_NoCollisionsWithoutUnderscore == [][C8_StepNoUnderscore]_vars

\* storages with prefixes 'a_b' and '', and without prefix, hold values at once
C8_Witness ==
  /\ FacadeOp("set") /\ last.inst = "nsB" /\ last.key = K_c
  /\ last.res.kind = "return"
  /\ GetNow("nsB", K_c) = Return(Str(S_hi))
  /\ GetNow("ts", K_nothing) = Return(Str(<<>>))
  /\ GetNow("emp", K_key) = Return(IntV(1))

\* C9: get(k) returns the decoding of the raw value held at k's physical key
\* when the call is made (null if none is held), whatever was read or written
\* before through this storage, another storage or the base storage itself.
C9_NoCache ==
  (FacadeOp("get") /\ last.fault = NoFault) =>
    LET pk == DocumentedKey(last.inst, last.key)
        d == decode(keyToCodec(last.inst)[last.key], m[pk])
    IN  IF pk \notin DOMAIN m THEN last.res = Return(NullV)
        ELSE IF d.kind = "throw" THEN last.res.kind = "throw"
        ELSE last.res = d

\* 'key' was last written through the string-typed storage sharing the prefix
\* and the number-typed storage reads what is held now
C9_Witness ==
  /\ FacadeOp("get") /\ last.inst = "ts" /\ last.key = K_key
  /\ K_key \in DOMAIN m /\ m[K_key] = <<>>
  /\ last.res = Return(IntV(0))

\* the codec raised in the last facade call
CodecRaised ==
  \/ /\ FacadeOp("get")
     /\ last.fault = NoFault
     /\ DocumentedKey(last.inst, last.key) \in DOMAIN m
     /\ decode(keyToCodec(last.inst)[last.key],
               m[DocumentedKey(last.inst, last.key)]).kind = "throw"
  \/ /\ FacadeOp("set")
     /\ encode(keyToCodec(last.inst)[last.key], last.value).kind = "throw"
\* the base storage raised in the last facade call
BaseRaised ==
  /\ last.inst \in Instances
  /\ last.calls # <<>>
  /\ last.fault # NoFault

OpWord(op) ==
  CASE op = "get" -> W_get [] op = "set" -> W_set [] op = "remove" -> W_remove

\* C10: when the base storage call or the codec raises during get, set or
\* remove, the facade call raises a new error whose message names the
\* operation and the logical key, not the prefixed physical key.
C10_ErrorsAreReraised ==
  (CodecRaised \/ BaseRaised) =>
    /\ last.res.kind = "throw"
    /\ last.res.err.t = "Error"
    /\ last.res.err # last.fault
    /\ Contains(last.res.err.message, OpWord(last.op))
    /\ Contains(last.res.err.message, <<"'">> \o last.key \o <<"'">>)
    /\ prefix(last.inst).defined =>
         ~Contains(last.res.err.message,
                   <<"'">> \o DocumentedKey(last.inst, last.key) \o <<"'">>)

\* a remove through the prefixed storage failed in the base storage
C10_Witness ==
  /\ FacadeOp("remove") /\ last.inst = "pre" /\ last.fault = NewError(S_quota)
  /\ last.res.kind = "throw"
  /\ Contains(last.res.err.message, W_remove)

\* the wrapping message of the last facade call, before any cause text
OpMsg ==
  CASE last.op = "get" -> getMsg(last.key)
    [] last.op = "set" -> setMsg(last.key)
    [] last.op = "remove" -> removeMsg(last.key)

\* the value caught by the try/catch of the last facade call
CaughtError ==
  IF BaseRaised THEN last.fault
  ELSE IF FacadeOp("get")
       THEN decode(keyToCodec(last.inst)[last.key],
                   m[DocumentedKey(last.inst, last.key)]).err
       ELSE encode(keyToCodec(last.inst)[last.key], last.value).err

\* v is an object with a property `message` holding a string
ExposesStringMessage(v) == v.t \in {"Error", "object"}

C12_NullMeansAbsent ==
  \A i \in cfg.users : \A k \in StorageKeys(i) :
    (GetNow(i, k) = Return(NullV)) <=> (prefixed(i, k) \notin DOMAIN m)

\* the value stored for key k of instance i is the JSON text of null and the
\* codec of k is JSON-based with a validator that accepts null
HoldsJSONNull(i, k) ==
  /\ keyToCodec(i)[k] = "json"
  /\ prefixed(i, k) \in DOMAIN m
  /\ jsonParse(m[prefixed(i, k)]) = Return(NullV)

\* C12 (amended): get(k) returns null when the base storage holds no value
\* at k's physical key; when a value is present get(k) returns a non-null
\* value or raises, unless the codec is JSON-based and the stored text is
\* the JSON literal null, which decodes to null.
C12_NullMeansAbsentUnlessJSONNull ==
  \A i \in cfg.users : \A k \in StorageKeys(i) :
    /\ prefixed(i, k) \notin DOMAIN m => GetNow(i, k) = Return(NullV)
    /\ (prefixed(i, k) \in DOMAIN m /\ ~HoldsJSONNull(i, k)) =>
         GetNow(i, k) # Return(NullV)
    /\ HoldsJSONNull(i, k) => GetNow(i, k) = Return(NullV)

\* the empty string is stored under the string-typed key and get returned it
C12_Witness ==
  /\ FacadeOp("get") /\ last.inst = "ts" /\ last.key = K_nothing
  /\ K_nothing \in DOMAIN m /\ m[K_nothing] = <<>>
  /\ last.res = Return(Str(<<>>))

\* a step in which set(k, v) fails because the codec's encode raises
C13_Step ==
  (/\ last'.inst \in Instances
   /\ last'.op = "set"
   /\ encode(keyToCodec(last'.inst)[last'.key], last'.value).kind = "throw")
  => LET i == last'.inst
         k == last'.key
     IN  /\ last'.calls = <<>>
         /\ m' = m
         /\ tsGet(i, k, m', NoFault).res = tsGet(i, k, m, NoFault).res
         /\ last'.res.kind = "throw"
         /\ last'.res.err.t = "Error"
         /\ Contains(last'.res.err.message, W_set)
         /\ Contains(last'.res.err.message, <<"'">> \o k \o <<"'">>)

\* C13: when set(k, v) fails because encode raises, no call reaches the base
\* storage, the base storage content is the same before and after the call,
\* get(k) returns what it returned before, and the call raises an error
\* naming the set operation and the logical key k.
C13_FailedEncodeWritesNothing == [][C13_Step]_vars

\* true is stored under the JSON-typed key, a set of a cyclic object failed,
\* and get still returns true
C13_Witness ==
  /\ FacadeOp("set") /\ last.inst = "js" /\ last.key = K_data
  /\ last.value = Circular
  /\ last.res.kind = "throw"
  /\ K_data \in DOMAIN m /\ m[K_data] = S_true
  /\ GetNow("js", K_data) = Return(BoolV(TRUE))

\* the codec function drawn in the initial state has been applied
Applied(fn) == probe.fn = fn /\ probe.out # Pending

\* C16: for the string, number, bigint and boolean codecs, decode(encode(x))
\* returns x for every value x of the codec's domain: +0, -0 (as -0), NaN,
\* +Infinity, -Infinity and the safe-integer bounds for number, the empty
\* string for string, integers beyond the safe-integer range for bigint.
C16_PrimitiveRoundTrip ==
  (Applied("roundtrip") /\ probe.codec.c \in Primitives) =>
    /\ probe.mid.kind = "return"
    /\ probe.out = Return(probe.arg)

\* -0 was encoded as "-0" and decoded as -0
C16_Witness ==
  /\ Applied("roundtrip") /\ probe.codec = Cd("number")
  /\ probe.arg = Num("negzero", 0)
  /\ probe.mid = Return(Str(<<"-", "0">>))
  /\ probe.out = Return(Num("negzero", 0))

RECURSIVE Lawful(_)
\* the codec cd, and the element codecs it is built from, satisfy the
\* round-trip law on the values used as elements
Lawful(cd) ==
  /\ cd.c = "arrayOf" => Lawful(cd.elem)
  /\ cd.c = "tupleOf" => \A n \in 1..Len(cd.elems) : Lawful(cd.elems[n])
  /\ \A x \in ElemSample(cd) :
       /\ codecEncode(cd, x).kind = "return"
       /\ codecDecode(cd, codecEncode(cd, x).val.s) = Return(x)

\* C17: when the element codecs satisfy the round-trip law, decode(encode(x))
\* returns x for every array x given to arrayOf(elem), the empty array and
\* arrays of arrays included, and for every tuple x given to
\* tupleOf(codecs) that has as many elements as there are codecs, whose
\* encoding holds element n as encoded by codec n.
C17_CombinatorRoundTrip ==
  /\ (/\ Applied("roundtrip")
      /\ probe.codec.c = "arrayOf"
      /\ Lawful(probe.codec.elem))
     => probe.out = Return(probe.arg)
  /\ (/\ Applied("roundtrip")
      /\ probe.codec.c = "tupleOf"
      /\ \A n \in 1..Len(probe.codec.elems) : Lawful(probe.codec.elems[n]))
     => /\ probe.out = Return(probe.arg)
        /\ probe.mid =
             jsonStringify(ArrV([n \in 1..Len(probe.codec.elems) |->
               codecEncode(probe.codec.elems[n], probe.arg.items[n]).val]))

\* an array of arrays of numbers, one of them empty, survived the round trip
C17_Witness ==
  /\ Applied("roundtrip")
  /\ probe.codec = ArrayOf(ArrayOf(Cd("number")))
  /\ probe.arg = ArrV(<<ArrV(<<Num("negzero", 0), NaNV>>), ArrV(<<>>)>>)
  /\ probe.out = Return(probe.arg)

\* C18: for the string, number, bigint and boolean codecs, decode(s) raises
\* for every string s that is not the encoding of a value: whenever decode(s)
\* returns a value, s is what encode gives for that value.
C18_DecodeRejectsNonEncodings ==
  (/\ Applied("decode")
   /\ probe.codec.c \in Primitives
   /\ probe.out.kind = "return")
  => codecEncode(probe.codec, probe.out.val) = Return(probe.arg)

\* C19: codecs.number.decode returns NaN for 'NaN', raises the decode error
\* for every other input whose numeric parse is NaN, and returns NaN for no
\* input other than 'NaN'.
C19_NaNOnlyForLiteralNaN ==
  (Applied("decode") /\ probe.codec = Cd("number")) =>
    /\ probe.arg = Str(S_NaN) => probe.out = Return(NaNV)
    /\ (probe.arg # Str(S_NaN) /\ ToNumber(probe.arg.s) = NaNV) =>
         probe.out = Throw(decodeError(probe.arg.s, TN_number))
    /\ probe.out = Return(NaNV) => probe.arg = Str(S_NaN)

\* decoding 'undefined' as a number raised
C19_Witness ==
  /\ Applied("decode") /\ probe.codec = Cd("number")
  /\ probe.arg = Str(<<"u", "n", "d", "e", "f", "i", "n", "e", "d">>)
  /\ probe.out.kind = "throw"

C14_SyncAsyncEquivalence ==
  (lockstep /\ alast.inst \in Instances) =>
    /\ am = m
    /\ alast.inst = last.inst /\ alast.op = last.op /\ alast.key = last.key
    /\ alast.res # Pending => alast.res = last.res

\* an awaited get of the asynchronous storage settled with the number 100
\* stored before, as the synchronous get returned
C14_Witness ==
  /\ lockstep /\ alast.step = "resume" /\ alast.op = "get"
  /\ alast.inst = "pre"
  /\ alast.res = Return(IntV(100)) /\ last.res = Return(IntV(100))
  /\ prefixed("pre", K_key) \in DOMAIN am /\ am = m

\* encode raised in the last asynchronous call
AsyncCodecRaised ==
  /\ alast.op = "set"
  /\ encode(keyToCodec(alast.inst)[alast.key], alast.value).kind = "throw"
\* the base storage call of the last asynchronous call threw
AsyncBaseThrew ==
  /\ ~AsyncCodecRaised
  /\ alast.fault # NoFault /\ alast.fault.mode = "throw"
\* the promise returned by the base storage to the last asynchronous call
\* rejected, and the call has resumed
AsyncBaseRejected ==
  /\ ~AsyncCodecRaised
  /\ alast.fault # NoFault /\ alast.fault.mode = "reject"
  /\ alast.step = "resume"

\* C15: a call of get, set or remove of the asynchronous typed storage
\* always returns a promise; when the codec raises, the base storage call
\* throws, or the promise of the base storage rejects, that promise rejects
\* with an error whose message names the operation and the logical key.
C15_FailuresRejectThePromise ==
  alast.inst \in Instances =>
    /\ alast.invoked = Return(PromiseV)
    /\ (AsyncCodecRaised \/ AsyncBaseThrew \/ AsyncBaseRejected) =>
         /\ alast.res.kind = "throw"
         /\ alast.res.err.t = "Error"
         /\ Contains(alast.res.err.message, OpWord(alast.op))
         /\ Contains(alast.res.err.message, <<"'">> \o alast.key \o <<"'">>)
         /\ prefix(alast.inst).defined =>
              ~Contains(alast.res.err.message,
                        <<"'">> \o prefixed(alast.inst, alast.key) \o <<"'">>)

\* a set whose base storage call threw returned a promise, which rejected
C15_Witness ==
  /\ alast.inst = "pre" /\ alast.op = "set" /\ alast.step = "invoke"
  /\ alast.fault = SyncThrow(NewError(S_quota))
  /\ alast.invoked = Return(PromiseV)
  /\ alast.res.kind = "throw"

\* the text s is not valid JSON, is not a JSON array, or is a JSON array
\* with an entry that is not a string
MalformedContainer(s) ==
  LET parsed == jsonParse(s)
  IN  \/ parsed.kind = "throw"
      \/ parsed.val.t # "array"
      \/ \E n \in 1..Len(parsed.val.items) : parsed.val.items[n].t # "string"

\* the codec at position n of a combinator: the element codec of arrayOf,
\* the n-th codec of tupleOf (none beyond the codecs given)
ElemCodecAt(cd, n) ==
  IF cd.c = "arrayOf" THEN {cd.elem}
  ELSE IF n <= Len(cd.elems) THEN {cd.elems[n]} ELSE {}

\* s is a well formed container and the codec of one of its entries raises
\* on decoding that entry
ElementRaises(cd, s) ==
  /\ ~MalformedContainer(s)
  /\ \E n \in 1..Len(jsonParse(s).val.items) :
       \E ec \in ElemCodecAt(cd, n) :
         codecDecode(ec, jsonParse(s).val.items[n].s).kind = "throw"

\* the error raised for a malformed container: the message ends with the
\* container's name
ContainerError(cd, s) ==
  Throw(decodeError(s, IF cd.c = "arrayOf" THEN TN_array ELSE TN_tuple))

\* the errors raised for a failing element: 'array of specified type' for
\* the whole text, 'tuple of specified type' for the text of an entry
ElementErrors(cd, s) ==
  IF MalformedContainer(s) THEN {}
  ELSE IF cd.c = "arrayOf" THEN {Throw(decodeError(s, TN_array_of))}
  ELSE {Throw(decodeError(jsonParse(s).val.items[n].s, TN_tuple_of)) :
          n \in 1..Len(jsonParse(s).val.items)}

\* the message of a raised error ends with 'of specified type'
HasElementSuffix(c) ==
  /\ c.kind = "throw"
  /\ LET msg == c.err.message
         suffix == <<"o", "f", " ", "s", "p", "e", "c", "i", "f", "i", "e",
                     "d", " ", "t", "y", "p", "e">>
     IN  /\ Len(msg) >= Len(suffix)
         /\ SubSeq(msg, Len(msg) - Len(suffix) + 1, Len(msg)) = suffix

\* C21: arrayOf and tupleOf tell a malformed container from a failing
\* element: a text that is not valid JSON, not a JSON array, or holds a
\* non-string entry raises the container error ('... as array' / '... as
\* tuple', nothing after it); a well formed container with an entry its codec
\* rejects raises the element error ('... of specified type'); the element
\* error is never raised for a malformed container, nor the container error
\* for a well formed one.
C21_ContainerVersusElementError ==
  (Applied("decode") /\ probe.codec.c \in {"arrayOf", "tupleOf"}) =>
    LET s == probe.arg.s
        cd == probe.codec
    IN  /\ MalformedContainer(s) =>
             /\ probe.out = ContainerError(cd, s)
             /\ ~HasElementSuffix(probe.out)
        /\ ElementRaises(cd, s) =>
             /\ probe.out \in ElementErrors(cd, s)
             /\ HasElementSuffix(probe.out)
        /\ HasElementSuffix(probe.out) => ~MalformedContainer(s)
        /\ probe.out = ContainerError(cd, s) => MalformedContainer(s)

\* arrayOf(boolean) raised the element error for '["true", "false", "1"]'
C21_Witness ==
  /\ Applied("decode")
  /\ probe.codec = ArrayOf(Cd("boolean"))
  /\ ~MalformedContainer(probe.arg.s)
  /\ ElementRaises(probe.codec, probe.arg.s)
  /\ probe.out = Throw(decodeError(probe.arg.s, TN_array_of))

\* tupleOf([number, boolean]) raised the container error for '[1]'
C21_WitnessContainer ==
  /\ Applied("decode")
  /\ probe.codec = TupleOf(<<Cd("number"), Cd("boolean")>>)
  /\ probe.arg.s = <<"[", "1", "]">>
  /\ probe.out = Throw(decodeError(probe.arg.s, TN_tuple))

\* C22: tupleOf(codecs).decode raises whenever the JSON array's length is
\* not the number of codecs, longer or shorter; a result decode returns has
\* exactly one element per codec.
C22_TupleLengthChecked ==
  (Applied("decode") /\ probe.codec.c = "tupleOf"
     /\ ~MalformedContainer(probe.arg.s)) =>
    LET n == Len(jsonParse(probe.arg.s).val.items)
    IN  /\ n # Len(probe.codec.elems) => probe.out.kind = "throw"
        /\ probe.out.kind = "return" =>
             Len(probe.out.val.items) = Len(probe.codec.elems)

\* tupleOf([number, boolean]).decode('["1"]') returned the one-element
\* array [1]
C22_ShortArrayDecoded ==
  /\ Applied("decode")
  /\ probe.codec = TupleOf(<<Cd("number"), Cd("boolean")>>)
  /\ probe.arg.s = <<"[", "\"", "1", "\"", "]">>
  /\ probe.out = Return(ArrV(<<IntV(1)>>))

\* decode of a jsonWithValidation codec was applied to JSON text
ValidatedDecode ==
  /\ Applied("decode")
  /\ probe.codec.c = "jsonWithValidation"
  /\ jsonParse(probe.arg.s).kind = "return"

\* the message starts with the text pre
StartsWith(msg, pre) ==
  Len(msg) >= Len(pre) /\ SubSeq(msg, 1, Len(pre)) = pre

\* C23: jsonWithValidation(validate, name?).decode gives the parsed JSON
\* value to validate; it returns what validate returns; when validate raises
\* it raises an error whose message includes the original error's message,
\* names the validator when a name was supplied, and carries no name segment
\* when none was supplied.
C23_ValidationErrorNamesValidator ==
  ValidatedDecode =>
    LET parsed == jsonParse(probe.arg.s).val
        r == validate(parsed)
        name == probe.codec.validatorName
    IN  /\ r.kind = "return" => probe.out = r
        /\ r.kind = "throw" =>
             /\ probe.out.kind = "throw"
             /\ Contains(probe.out.err.message, r.err.message)
             /\ name.defined =>
                  StartsWith(probe.out.err.message, name.s)
             /\ ~name.defined =>
                  StartsWith(probe.out.err.message, S_validation_error)

\* without a validator name, decode('1') raised an error whose message
\* starts with 'undefined validation error: '
C23_UndefinedNameSegment ==
  /\ ValidatedDecode
  /\ probe.codec = JsonWithValidation(NoName)
  /\ probe.arg.s = <<"1">>
  /\ probe.out = Throw(NewError(S_undefined \o <<" ">> \o S_validation_error
                                \o errorToString(NewError(S_not_boolean))))

\* what get(key) on handle h returns in the current state
BaseGetNow(h, key) == mapGet(stores[handles[h].id], key)

\* C24: the in-memory base storage is a string map: get(k) returns the value
\* of the most recent set(k, v) that no remove(k) or clear() followed, and
\* null otherwise; remove(k) leaves the other keys as they were and clear()
\* leaves every key absent.
C24_InMemoryIsStringMap ==
  /\ \A h \in 1..Len(handles) :
       \A k \in BaseKeys : BaseGetNow(h, k) = latest[h][k]
  /\ blast.op = "get" => blast.out = Return(latest[blast.h][blast.key])
  /\ blast.op = "clear" => \A k \in BaseKeys : BaseGetNow(blast.h, k) = NullV

\* remove('foo') on the singleton left 'key' with its value
C24_Witness ==
  /\ blast.h = 1 /\ blast.op = "remove" /\ blast.key = K_foo
  /\ BaseGetNow(1, K_foo) = NullV
  /\ BaseGetNow(1, K_key) = Str(S_value1)

\* the step is a call of set, remove or clear on a scoped storage
ScopedWrite ==
  /\ blast'.op \in {"set", "remove", "clear"}
  /\ blast'.h > 1

\* C25: every storage made by inMemoryScoped() or inMemoryScopedAsync() has
\* its own key space: it starts empty, and a set, remove or clear on it never
\* changes what get returns on another scoped storage or on the
\* baseStorages.inMemory singleton.
C25_ScopedKeySpaces ==
  [][/\ ScopedWrite =>
          \A h \in 1..Len(handles) :
            h # blast'.h =>
              \A k \in BaseKeys :
                mapGet(stores'[handles'[h].id], k) = BaseGetNow(h, k)
     /\ blast'.op = "create" =>
          /\ \A h \in 1..Len(handles) :
               \A k \in BaseKeys :
                 mapGet(stores'[handles'[h].id], k) = BaseGetNow(h, k)
          /\ \A k \in BaseKeys :
               mapGet(stores'[handles'[blast'.h].id], k) = NullV]_vars

\* s1.set('key', 'value1'); s2.set('key', 'value2'): s1 holds 'value1'
C25_Witness ==
  /\ Len(handles) = 3
  /\ blast.h = 3 /\ blast.op = "set" /\ blast.key = K_key
  /\ BaseGetNow(2, K_key) = Str(S_value1)
  /\ BaseGetNow(3, K_key) = Str(S_value2)
  /\ BaseGetNow(1, K_key) = NullV

\* the physical key of the n-th suspended call
PendingKey(n) == prefixed(pending[n].inst, pending[n].key)

\* the n-th suspended call wrote to the physical key pk
PendingWrite(n, pk) ==
  /\ pending[n].op \in {"set", "remove"}
  /\ PendingKey(n) = pk

\* C26: the asynchronous typed storage neither buffers nor reorders: each
\* call issues its base storage call when it is invoked, before it first
\* suspends, and issues none when it resumes; so over the async in-memory
\* storage, of two set calls on the same key that are both in flight the
\* later-issued one's value is stored, and a get issued after a set of the
\* same key that is still in flight receives that set's value.
C26_BaseCallsInIssueOrder ==
  /\ (alast.inst \in Instances /\ alast.step = "invoke"
        /\ ~(/\ alast.op = "set"
             /\ encode(keyToCodec(alast.inst)[alast.key],
                       alast.value).kind = "throw")) =>
       /\ Len(alast.calls) = 1
       /\ alast.calls[1].op = alast.op
       /\ alast.calls[1].key = prefixed(alast.inst, alast.key)
  /\ alast.step = "resume" => alast.calls = <<>>
  /\ cfg.base = "inMemoryAsync" =>
       \A n \in 1..Len(pending) :
         pending[n].op = "set" =>
           LET pk == PendingKey(n)
               enc == encode(keyToCodec(pending[n].inst)[pending[n].key],
                             pending[n].value).val
           IN  /\ (\A k \in (n + 1)..Len(pending) : ~PendingWrite(k, pk)) =>
                    mapGet(am, pk) = enc
               /\ \A k \in (n + 1)..Len(pending) :
                    (/\ pending[k].op = "get" /\ PendingKey(k) = pk
                     /\ \A j \in (n + 1)..(k - 1) : ~PendingWrite(j, pk)) =>
                      pending[k].awaiting = Return(enc)

\* set('key', 1) and set('key', 100) are both in flight and 100 is stored
C26_Witness ==
  /\ cfg.base = "inMemoryAsync" /\ Len(pending) = 2
  /\ pending[1].inst = "ts" /\ pending[1].op = "set"
  /\ pending[1].key = K_key /\ pending[1].value = IntV(1)
  /\ pending[2].inst = "ts" /\ pending[2].op = "set"
  /\ pending[2].key = K_key /\ pending[2].value = IntV(100)
  /\ mapGet(am, K_key) = Str(<<"1", "0", "0">>)

\* a get issued while set('key', 100) is in flight awaits the text '100'
C26_WitnessGet ==
  /\ cfg.base = "inMemoryAsync" /\ Len(pending) = 2
  /\ pending[1].inst = "ts" /\ pending[1].op = "set"
  /\ pending[1].key = K_key /\ pending[1].value = IntV(100)
  /\ pending[2].inst = "ts" /\ pending[2].op = "get"
  /\ pending[2].key = K_key
  /\ pending[2].awaiting = Return(Str(<<"1", "0", "0">>))

\* the base storage calls a call op(key, value) of instance i is to make
ExpectedCalls(i, op, key, value) ==
  CASE op = "get" -> <<BaseCall("get", prefixed(i, key), NullV)>>
    [] op = "remove" -> <<BaseCall("remove", prefixed(i, key), NullV)>>
    [] op = "set" ->
         LET e == encode(keyToCodec(i)[key], value)
         IN  IF e.kind = "throw" THEN <<>>
             ELSE <<BaseCall("set", prefixed(i, key), e.val)>>

\* C27: a call of the typed storage, synchronous or asynchronous, makes at
\* most one base storage call and never repeats a failed one: get makes one
\* base get and nothing else, set makes one base set of encode(value) under
\* the physical key when encode succeeds and no call when encode raises,
\* remove makes one base remove; the continuation of an asynchronous call
\* makes none.
C27_AtMostOneBaseCall ==
  /\ last.inst \in Instances =>
       /\ last.calls = ExpectedCalls(last.inst, last.op, last.key, last.value)
       /\ Len(last.calls) <= 1
  /\ alast.inst \in Instances =>
       /\ alast.step = "invoke" =>
            alast.calls =
              ExpectedCalls(alast.inst, alast.op, alast.key, alast.value)
       /\ alast.step = "resume" => alast.calls = <<>>
       /\ Len(alast.calls) <= 1

\* a remove whose base storage call raised made that one call
C27_Witness ==
  /\ FacadeOp("remove") /\ last.fault # NoFault
  /\ last.res.kind = "throw"
  /\ last.calls = <<BaseCall("remove", prefixed(last.inst, last.key), NullV)>>

\* an asynchronous set whose promise rejected has resumed without a call
C27_WitnessAsync ==
  /\ alast.op = "set" /\ alast.step = "resume"
  /\ alast.fault = Rejects(NewError(S_quota))
  /\ alast.res.kind = "throw" /\ alast.calls = <<>>

\* a step made by get leaves the base storage as it was, and a get that
\* raised on a stored value raises the same error when it is repeated
C30_Step ==
  /\ (last'.inst \in Instances /\ last'.op = "get") =>
       /\ m' = m
       /\ (last'.res.kind = "throw" /\ last'.fault = NoFault) =>
            /\ prefixed(last'.inst, last'.key) \in DOMAIN m'
            /\ tsGet(last'.inst, last'.key, m', NoFault).res = last'.res
  /\ (alast'.inst \in Instances /\ alast'.op = "get") =>
       /\ am' = am
       /\ (/\ cfg.base = "inMemoryAsync" /\ alast'.step = "resume"
           /\ alast'.res.kind = "throw" /\ pending' = <<>>) =>
            /\ prefixed(alast'.inst, alast'.key) \in DOMAIN am'
            /\ atsGetResume(alast'.inst, alast'.key,
                 atsGetInvoke(alast'.inst, alast'.key, am', NoFault).awaiting)
               = alast'.res

\* C30: get is read-only: get(k) never changes the content of the base
\* storage, whether it returns a value, returns null or raises; a raw value
\* that cannot be decoded stays in place, so that get(k) repeated without a
\* set or remove in between raises again.
C30_GetIsReadOnly == [][C30_Step]_vars

\* get('key') raised on 'bad_data', which is still stored
C30_Witness ==
  /\ FacadeOp("get") /\ last.key = K_key /\ last.fault = NoFault
  /\ last.res.kind = "throw"
  /\ mapGet(m, prefixed(last.inst, last.key)) = Str(S_bad_data)

\* over the async in-memory storage, get('key') of the number-typed storage
\* rejected on the text 'hi' written through another typed storage, and
\* 'hi' is still stored
C30_WitnessAsync ==
  /\ cfg.base = "inMemoryAsync" /\ pending = <<>>
  /\ alast.inst = "ts" /\ alast.op = "get" /\ alast.key = K_key
  /\ alast.step = "resume" /\ alast.res.kind = "throw"
  /\ mapGet(am, K_key) = Str(S_hi)

\* a call of op on instance i is suspended at its await
InFlight(i, op) ==
  \E n \in 1..Len(pending) : pending[n].inst = i /\ pending[n].op = op

\* the last step resumed a call of op on instance i, which settled
Settled(i, op) ==
  /\ alast.inst = i /\ alast.op = op /\ alast.step = "resume"
  /\ alast.res.kind \in {"return", "throw"}

\* a call that has settled when it returns its promise made no base storage
\* call, or made one that threw instead of returning a promise
SettledOnlyAfterBaseCall ==
  (alast.inst \in Instances /\ alast.step = "invoke"
     /\ alast.res.kind \in {"return", "throw"}) =>
    \/ alast.calls = <<>>
    \/ alast.fault # NoFault /\ alast.fault.mode = "throw"

\* C28: every asynchronous get, set or remove that was invoked eventually
\* settles, resolving or rejecting, once the promise of its base storage
\* call has settled; and it settles only after that base call has
\* completed: no call has a result while the promise of its base storage
\* call is pending.
C28_AsyncCallsSettle ==
  /\ \A op \in {"get", "set", "remove"} :
       InFlight("pre", op) ~> Settled("pre", op)
  /\ []SettledOnlyAfterBaseCall

\* a remove whose base storage promise rejected was suspended and has
\* settled by rejecting
C28_Witness ==
  /\ alast.inst = "pre" /\ alast.op = "remove" /\ alast.step = "resume"
  /\ alast.fault = Rejects(NewError(S_quota))
  /\ alast.res.kind = "throw"

\* C29: the key-to-codec mapping of a typed storage is fixed when
\* createTypedStorage returns: whatever the typed storage does and whatever
\* the caller later changes in the spec object it passed, set(k, v) stores
\* what the codec given for k at construction encodes and get(k) returns what
\* that codec decodes.
C29_CodecFixedAtConstruction ==
  (typed.built /\ last.inst = "dyn") =>
    LET c == typed.given[last.key]
    IN  /\ last.op = "set" =>
             LET e == encode(c, last.value)
             IN  IF e.kind = "throw" THEN last.res.kind = "throw"
                 ELSE /\ last.res = Return(NullV)
                      /\ mapGet(m, last.key) = e.val
        /\ (last.op = "get" /\ last.key \in DOMAIN m) =>
             LET d == decode(c, m[last.key])
             IN  IF d.kind = "throw" THEN last.res.kind = "throw"
                 ELSE last.res = d

\* created with { key: codecs.number }; after `spec.key = <JSON codec>`,
\* set('key', NaN) stored 'null' where codecs.number stores 'NaN'
C29_CallerChangedCodec ==
  /\ typed.built /\ typed.given[K_key] = "number"
  /\ objects[SpecRef][K_key] = "json"
  /\ last.inst = "dyn" /\ last.op = "set" /\ last.value = NaNV
  /\ mapGet(m, K_key) = Str(S_null)

====
